---------------------------- MODULE Spec2Model ----------------------------
(***************************************************************************)
(* A model of metrinix (src/index.js): the ps() sampling cycle, the        *)
(* /proc/[pid]/stat record parser it is built on, and the cpu rate         *)
(* computation over two process snapshots.  Spec is one sample cycle,      *)
(* SpecTwo two cycles side by side, SpecRead the enumeration of /proc on   *)
(* its own and SpecParse the record parser on its own.  SpecFair is the    *)
(* sample cycle of a system whose files are well formed, under the         *)
(* scheduling of the event loop.  SpecUptime, SpecDf, SpecMemory and       *)
(* SpecCpuUsage are uptime(), df(), memory() and cpuUsage() on their own.  *)
(*                                                                         *)
(* JavaScript strings are sequences of one-character strings.  JavaScript  *)
(* numbers are exact rationals <<n, d>> in lowest terms with d > 0; d = 0   *)
(* encodes the non-finite doubles: <<1,0>> is Infinity, <<-1,0>> is         *)
(* -Infinity and <<0,0>> is NaN.  Rounding of IEEE doubles is not modelled. *)
(***************************************************************************)
EXTENDS Integers, Sequences, FiniteSets, TLC

(***************************************************************************)
(* Bounds of the model.                                                    *)
(***************************************************************************)
\* the largest process id /proc may list
MaxPid == 2
\* the longest process name handed to the record parser
MaxNameLen == 4
\* the most tokens a file handed to uptime() on its own is made of
MaxUptimeTokens == 3
\* the most lines df prints after its header
MaxDfLines == 2
\* the longest time a core has spent in one mode
MaxTime == 5

(***************************************************************************)
(* Characters.                                                             *)
(***************************************************************************)
SP == " "
NUL == "NUL"
Digits == {"0", "1", "2", "3", "4", "5", "6", "7", "8", "9"}
WhiteSpace == {" ", "\t", "\n"}

DigitVal(c) ==
  CASE c = "0" -> 0 [] c = "1" -> 1 [] c = "2" -> 2 [] c = "3" -> 3
    [] c = "4" -> 4 [] c = "5" -> 5 [] c = "6" -> 6 [] c = "7" -> 7
    [] c = "8" -> 8 [] c = "9" -> 9

DigitChar(n) ==
  CASE n = 0 -> "0" [] n = 1 -> "1" [] n = 2 -> "2" [] n = 3 -> "3"
    [] n = 4 -> "4" [] n = 5 -> "5" [] n = 6 -> "6" [] n = 7 -> "7"
    [] n = 8 -> "8" [] n = 9 -> "9"

\* the first index of s at or after i whose character is in C (Len(s) + 1 if
\* there is none), and the same for a character not in C
RECURSIVE NextIn(_, _, _)
NextIn(s, i, C) ==
  IF i > Len(s) \/ s[i] \in C THEN i ELSE NextIn(s, i + 1, C)

RECURSIVE NextNotIn(_, _, _)
NextNotIn(s, i, C) ==
  IF i > Len(s) \/ s[i] \notin C THEN i ELSE NextNotIn(s, i + 1, C)

\* the last index of s at or before i whose character is not in C (0 if none)
RECURSIVE PrevNotIn(_, _, _)
PrevNotIn(s, i, C) ==
  IF i < 1 \/ s[i] \notin C THEN i ELSE PrevNotIn(s, i - 1, C)

(***************************************************************************)
(* JavaScript numbers as rationals.                                        *)
(***************************************************************************)
NaN == <<0, 0>>
PosInf == <<1, 0>>
NegInf == <<-1, 0>>

Abs(x) == IF x < 0 THEN -x ELSE x
Sign(x) == IF x < 0 THEN -1 ELSE IF x > 0 THEN 1 ELSE 0

RECURSIVE GCD(_, _)
GCD(a, b) == IF b = 0 THEN a ELSE GCD(b, a % b)

\* the rational n/d in lowest terms; d = 0 keeps only the sign of n
Rat(n, d) ==
  IF d = 0 THEN <<Sign(n), 0>>
  ELSE LET g == GCD(Abs(n), Abs(d))
           s == IF d < 0 THEN -1 ELSE 1
       IN  <<(s * n) \div g, (s * d) \div g>>

IntNum(n) == <<n, 1>>
IsFinite(a) == a[2] # 0
IsNaN(a) == a = NaN

\* a + b on doubles
NumAdd(a, b) ==
  IF IsNaN(a) \/ IsNaN(b) THEN NaN
  ELSE IF ~IsFinite(a) /\ ~IsFinite(b) THEN (IF a = b THEN a ELSE NaN)
  ELSE IF ~IsFinite(a) THEN a
  ELSE IF ~IsFinite(b) THEN b
  ELSE Rat(a[1] * b[2] + b[1] * a[2], a[2] * b[2])

NumNeg(a) == <<-a[1], a[2]>>

\* a - b on doubles
NumSub(a, b) == NumAdd(a, NumNeg(b))

\* a * b on doubles
NumMul(a, b) ==
  IF IsNaN(a) \/ IsNaN(b) THEN NaN
  ELSE IF IsFinite(a) /\ IsFinite(b) THEN Rat(a[1] * b[1], a[2] * b[2])
  ELSE IF a[1] = 0 \/ b[1] = 0 THEN NaN
  ELSE <<Sign(a[1]) * Sign(b[1]), 0>>

\* a / b on doubles: x/0 is an infinity of the sign of x, 0/0 is NaN
NumDiv(a, b) ==
  IF IsNaN(a) \/ IsNaN(b) THEN NaN
  ELSE IF ~IsFinite(a) /\ ~IsFinite(b) THEN NaN
  ELSE IF ~IsFinite(a) THEN <<a[1] * (IF b[1] < 0 THEN -1 ELSE 1), 0>>
  ELSE IF ~IsFinite(b) THEN IntNum(0)
  ELSE IF b[1] = 0 THEN <<Sign(a[1]), 0>>
  ELSE Rat(a[1] * b[2], a[2] * b[1])

NumLess(a, b) ==
  /\ ~IsNaN(a) /\ ~IsNaN(b)
  /\ IF IsFinite(a) /\ IsFinite(b) THEN a[1] * b[2] < b[1] * a[2]
     ELSE IF ~IsFinite(a) /\ ~IsFinite(b) THEN a[1] < b[1]
     ELSE IF ~IsFinite(a) THEN a[1] < 0
     ELSE b[1] > 0

(***************************************************************************)
(* JavaScript values: numbers, strings and undefined.                      *)
(***************************************************************************)
Num(q) == [t |-> "num", q |-> q]
Str(s) == [t |-> "str", s |-> s]
Undefined == [t |-> "undef"]

RECURSIVE Pow10(_)
Pow10(k) == IF k = 0 THEN 1 ELSE 10 * Pow10(k - 1)

\* the value of the digits s[i..j] (0 when the range is empty)
RECURSIVE DigitsVal(_, _, _)
DigitsVal(s, i, j) ==
  IF j < i THEN 0 ELSE 10 * DigitsVal(s, i, j - 1) + DigitVal(s[j])

\* the last index of the run of digits of s that starts at i (i - 1 if none)
DigitRunEnd(s, i) == NextNotIn(s, i, Digits) - 1

\* the first index of s at or after i that holds no white space
SkipWhiteSpace(s, i) == NextNotIn(s, i, WhiteSpace)

\* String.prototype.trim
Trim(s) ==
  SubSeq(s, NextNotIn(s, 1, WhiteSpace), PrevNotIn(s, Len(s), WhiteSpace))

\* parseFloat: the longest prefix [ws] [sign] digits [. digits], NaN if it
\* holds no digit (exponents and the literal Infinity are not modelled)
ParseFloat(s) ==
  LET Value(neg, mag, nfr) == Rat(IF neg THEN -mag ELSE mag, Pow10(nfr))
      Fraction(neg, p1, ie, fe) ==
        IF ie < p1 /\ fe <= ie + 1 THEN NaN
        ELSE IF fe <= ie THEN Value(neg, DigitsVal(s, p1, ie), 0)
        ELSE Value(neg, DigitsVal(s, p1, ie) * Pow10(fe - (ie + 1))
                          + DigitsVal(s, ie + 2, fe),
                   fe - (ie + 1))
      Integral(neg, p1, ie) ==
        Fraction(neg, p1, ie,
                 IF ie + 1 <= Len(s) /\ s[ie + 1] = "."
                 THEN DigitRunEnd(s, ie + 2) ELSE ie)
      Signed(neg, p1) == Integral(neg, p1, DigitRunEnd(s, p1))
      Start(p0) ==
        IF p0 <= Len(s) /\ s[p0] \in {"-", "+"}
        THEN Signed(s[p0] = "-", p0 + 1) ELSE Signed(FALSE, p0)
  IN  Start(SkipWhiteSpace(s, 1))

\* the end of the numeric literal [sign] digits [. digits] that starts t
LiteralEnd(t) ==
  LET Integral(ie) ==
        IF ie + 1 <= Len(t) /\ t[ie + 1] = "." THEN DigitRunEnd(t, ie + 2)
        ELSE ie
  IN  Integral(DigitRunEnd(t, IF Len(t) > 0 /\ t[1] \in {"-", "+"} THEN 2 ELSE 1))

\* ToNumber on a string: the trimmed text must be a whole numeric literal
StringToNumber(s) ==
  LET Trimmed(t) ==
        IF Len(t) = 0 THEN IntNum(0)
        ELSE IF LiteralEnd(t) = Len(t) THEN ParseFloat(t)
        ELSE NaN
  IN  Trimmed(Trim(s))

\* ToNumber on a value
ToNumber(v) ==
  IF v.t = "num" THEN v.q
  ELSE IF v.t = "str" THEN StringToNumber(v.s)
  ELSE NaN


\* Number to string, for the integers and the non-finite values
RECURSIVE NatToStr(_)
NatToStr(n) ==
  IF n < 10 THEN <<DigitChar(n)>>
  ELSE Append(NatToStr(n \div 10), DigitChar(n % 10))

NumToStr(q) ==
  IF q = NaN THEN <<"N", "a", "N">>
  ELSE IF q = PosInf THEN <<"I", "n", "f", "i", "n", "i", "t", "y">>
  ELSE IF q = NegInf THEN <<"-", "I", "n", "f", "i", "n", "i", "t", "y">>
  ELSE IF q[1] < 0 THEN <<"-">> \o NatToStr((-q[1]) \div q[2])
  ELSE NatToStr(q[1] \div q[2])

ToStr(v) ==
  IF v.t = "str" THEN v.s
  ELSE IF v.t = "num" THEN NumToStr(v.q)
  ELSE <<"u", "n", "d", "e", "f", "i", "n", "e", "d">>

\* the binary operators the rate computation uses
JsPlus(a, b) ==
  IF a.t = "str" \/ b.t = "str" THEN Str(ToStr(a) \o ToStr(b))
  ELSE Num(NumAdd(ToNumber(a), ToNumber(b)))
JsMinus(a, b) == Num(NumSub(ToNumber(a), ToNumber(b)))
JsTimes(a, b) == Num(NumMul(ToNumber(a), ToNumber(b)))
JsDivide(a, b) == Num(NumDiv(ToNumber(a), ToNumber(b)))

(***************************************************************************)
(* String operations of the record parser.                                 *)
(***************************************************************************)
NoMatch == [found |-> FALSE]

\* stat.match(/(\([^\)]+\))/) tried from index i on: the leftmost "(" that is
\* followed by at least one character other than ")" and then by ")"
RECURSIVE MatchFrom(_, _)
MatchFrom(s, i) ==
  LET open  == NextIn(s, i, {"("})
      close == NextIn(s, open + 1, {")"})
  IN  IF open > Len(s) \/ close > Len(s) THEN NoMatch
      ELSE IF close >= open + 2
      THEN [found |-> TRUE, index |-> open, text |-> SubSeq(s, open, close)]
      ELSE MatchFrom(s, open + 1)

MatchProcessName(s) == MatchFrom(s, 1)

\* s.replace(/\s/g, '_')
ReplaceWhiteSpace(s) ==
  [i \in 1 .. Len(s) |-> IF s[i] \in WhiteSpace THEN "_" ELSE s[i]]

\* s.replace(/[\(\)]/g, '')
RemoveParens(s) == SelectSeq(s, LAMBDA c : c \notin {"(", ")"})

\* s.replace(/[\x00]/g, ' ')
ReplaceNul(s) == [i \in 1 .. Len(s) |-> IF s[i] = NUL THEN SP ELSE s[i]]

\* the first index at or after i at which pat occurs in s, 0 if there is none
RECURSIVE IndexFrom(_, _, _)
IndexFrom(s, pat, i) ==
  IF i + Len(pat) - 1 > Len(s) THEN 0
  ELSE IF SubSeq(s, i, i + Len(pat) - 1) = pat THEN i
  ELSE IndexFrom(s, pat, i + 1)

IndexOf(s, pat) == IndexFrom(s, pat, 1)

\* GetSubstitution of String.prototype.replace with a string pattern: in the
\* replacement text $$ is "$", $& the matched text, $` the text before the
\* match and $' the text after it; every other character stands for itself
RECURSIVE GetSubstitution(_, _, _, _, _)
GetSubstitution(matched, s, pos, repl, i) ==
  IF i > Len(repl) THEN <<>>
  ELSE IF repl[i] = "$" /\ i < Len(repl) /\ repl[i + 1] \in {"$", "&", "`", "'"}
  THEN (CASE repl[i + 1] = "$" -> <<"$">>
          [] repl[i + 1] = "&" -> matched
          [] repl[i + 1] = "`" -> SubSeq(s, 1, pos - 1)
          [] repl[i + 1] = "'" -> SubSeq(s, pos + Len(matched), Len(s)))
         \o GetSubstitution(matched, s, pos, repl, i + 2)
  ELSE <<repl[i]>> \o GetSubstitution(matched, s, pos, repl, i + 1)

\* s.replace(pat, repl) with a string pattern: the first occurrence only
StringReplace(s, pat, repl) ==
  LET pos == IndexOf(s, pat)
  IN  IF pos = 0 THEN s
      ELSE SubSeq(s, 1, pos - 1)
             \o GetSubstitution(pat, s, pos, repl, 1)
             \o SubSeq(s, pos + Len(pat), Len(s))

\* the index of the first separator of s at or after i (Len(s) + 1 if none)
RECURSIVE NextSeparator(_, _)
NextSeparator(s, i) ==
  IF i > Len(s) \/ s[i] = SP THEN i ELSE NextSeparator(s, i + 1)

\* s.split(' '): a token between every two separators, empty ones included
RECURSIVE SplitFrom(_, _)
SplitFrom(s, i) ==
  LET j == NextSeparator(s, i)
  IN  IF j > Len(s) THEN <<SubSeq(s, i, Len(s))>>
      ELSE <<SubSeq(s, i, j - 1)>> \o SplitFrom(s, j + 1)

Split(s) == SplitFrom(s, 1)

\* tokens joined by single spaces
RECURSIVE Join(_)
Join(toks) ==
  IF Len(toks) = 0 THEN <<>>
  ELSE IF Len(toks) = 1 THEN toks[1]
  ELSE toks[1] \o <<SP>> \o Join(Tail(toks))

(***************************************************************************)
(* The record schema and the record parser of ps.readAll.                  *)
(***************************************************************************)
\* the field names of statMap in declaration order: the position of a field
\* is its index here minus one
StatFields ==
  << "pid", "comm", "state", "ppid", "pgrp", "session", "tty_nr", "tpgid",
     "flags", "minflt", "cminflt", "majflt", "cmajflt", "utime", "stime",
     "cutime", "cstime", "priority", "nice", "num_threads", "itrealvalue",
     "starttime", "vsize", "rss", "rsslim", "startcode", "endcode",
     "startstack", "kstkesp", "kstkeip", "signal", "blocked", "sigignore",
     "sigcatch", "wchan", "nswap", "cnswap", "exit_signal", "processor",
     "rt_priority", "policy", "delayacct_blkio_ticks", "guest_time",
     "cguest_time", "start_data", "end_data", "start_brk", "arg_start",
     "arg_end", "env_start", "env_end", "exit_code" >>

FieldNames == {StatFields[i] : i \in 1 .. Len(StatFields)}

\* the position of field k, searched from index i of StatFields on
RECURSIVE FieldPosition(_, _)
FieldPosition(k, i) ==
  IF StatFields[i] = k THEN i - 1 ELSE FieldPosition(k, i + 1)

statMap == [k \in FieldNames |-> FieldPosition(k, 1)]

\* the number of tokens the parser expects
ExpectedEntries == 52

\* parts[i] of a JavaScript array, i counted from 0
ArrayGet(parts, i) ==
  IF i + 1 <= Len(parts) THEN Str(parts[i + 1]) ELSE Undefined

\* parts[i] = v, which extends the array when i is its length
ArraySet(parts, i, v) ==
  IF i + 1 <= Len(parts) THEN [parts EXCEPT ![i + 1] = v]
  ELSE Append(parts, v)

\* the switch on parts[statMap.state]; the first case that matches is taken
\* and no case leaves state undefined
StateLabel(code) ==
  CASE code = Str(<<"S">>) -> Str(<<"Sleeping">>)
    [] code = Str(<<"R">>) -> Str(<<"Running">>)
    [] code = Str(<<"D">>) -> Str(<<"Waiting">>)
    [] code = Str(<<"Z">>) -> Str(<<"Zombie">>)
    [] code = Str(<<"T">>) -> Str(<<"Stopped">>)
    [] code = Str(<<"t">>) -> Str(<<"Tracing stop">>)
    [] code = Str(<<"W">>) -> Str(<<"Paging">>)
    [] code \in {Str(<<"X">>), Str(<<"x">>)} -> Str(<<"Dead">>)
    [] code = Str(<<"K">>) -> Str(<<"Wakekill">>)
    [] code = Str(<<"P">>) -> Str(<<"Parked">>)
    [] OTHER -> Undefined

\* value.match(/[0-9\.]+$/): the token ends in a digit or a dot
MatchesNumeric(tok) ==
  Len(tok) > 0 /\ tok[Len(tok)] \in Digits \cup {"."}

\* one field of rawMap
CoerceField(tok) ==
  IF MatchesNumeric(tok) THEN Num(ParseFloat(tok)) ELSE Str(tok)

\* the fields whose position is beyond the tokens: value.match throws there
MissingFields(parts) ==
  {StatFields[i] : i \in Len(parts) + 1 .. Len(StatFields)}

RawMap(parts) == [k \in FieldNames |-> CoerceField(parts[statMap[k] + 1])]

MegaByte == 1024 * 1024

\* a memory sub-record that takes the pages for bytes
Memory_pagesAsBytes(rss, pageSize) ==
  [pages |-> rss, pagesize |-> Str(pageSize), bytes |-> rss,
   mb |-> JsDivide(rss, Num(IntNum(MegaByte)))]

\* the memory sub-record derived from rss and the page size
Memory(rss, pageSize) ==
  LET Sized(bytes) ==
        [pages    |-> rss,
         pagesize |-> Str(pageSize),
         bytes    |-> bytes,
         mb       |-> IF rss = Num(IntNum(0)) THEN Num(IntNum(0))
                      ELSE JsDivide(bytes, Num(IntNum(MegaByte)))]
  IN  Sized(JsTimes(rss, Str(pageSize)))

\* the text of comm with its white space replaced, as it is spliced into stat
DoctoredName(name) == ReplaceWhiteSpace(name)

\* the tokens of a status line after the bracketed name has been doctored
StatParts(stat, name) == Split(StringReplace(stat, name, DoctoredName(name)))

\* the executable name taken from raw.comm
Executable(comm) == Trim(RemoveParens(comm))

Thrown(e, w) == [thrown |-> TRUE, error |-> e, warned |-> w]

\* the body of the dirs.forEach callback after the two files have been read:
\* either an exception, or the entry stored under processes[''+PID]
ParseStat(PID, statText, cmdlineText, pageSize) ==
  LET Entry(rawMap, state, warn) ==
        IF rawMap["comm"].t # "str" THEN Thrown("TypeError", warn)
        ELSE [thrown |-> FALSE,
              warned |-> warn,
              entry  |->
                [id         |-> [process |-> Str(PID),
                                 parent  |-> rawMap["ppid"]],
                 executable |-> Str(Executable(rawMap["comm"].s)),
                 command    |-> Str(Trim(ReplaceNul(cmdlineText))),
                 state      |-> [code  |-> rawMap["state"],
                                 value |-> state],
                 raw        |-> rawMap,
                 memory     |-> Memory(rawMap["rss"], pageSize)]]
      Parts(parts, warn) ==
        IF MissingFields(parts) # {} THEN Thrown("TypeError", warn)
        ELSE Entry(RawMap(parts),
                   StateLabel(ArrayGet(parts, statMap["state"])), warn)
      Tokens(split, name) ==
        Parts(ArraySet(split, statMap["comm"], name),
              Len(split) # ExpectedEntries)
      Matched(stat, processName) ==
        IF ~processName.found THEN Thrown("TypeError", FALSE)
        ELSE Tokens(StatParts(stat, processName.text), processName.text)
      Trimmed(stat) == Matched(stat, MatchProcessName(stat))
  IN  Trimmed(Trim(statText))

(***************************************************************************)
(* Inputs: the texts the kernel and the helper programs hand to the code.  *)
(***************************************************************************)
\* the token of a well-formed status line at position i (3 and up), given the
\* cpu times <<utime, stime, cutime, cstime>>, which rss may follow
FieldToken(i, ticks) ==
  CASE i = 3  -> <<"1">>
    [] i = 7  -> <<"-", "1">>
    [] i = 13 -> NatToStr(ticks[1])
    [] i = 14 -> NatToStr(ticks[2])
    [] i = 15 -> NatToStr(ticks[3])
    [] i = 16 -> NatToStr(ticks[4])
    [] i = 17 -> <<"2", "0">>
    [] i = 23 -> IF Len(ticks) > 4 THEN NatToStr(ticks[5]) ELSE <<"5">>
    [] OTHER  -> <<"0">>

\* a status line of n tokens (the bracketed name counted as one), as the
\* kernel writes it: pid (name) state fields..., ended by a newline
StatLine(pid, name, code, ticks, n) ==
  Join(<<pid, <<"(">> \o name \o <<")">>, <<code>>>>
         \o [i \in 1 .. n - 3 |-> FieldToken(i + 2, ticks)])
    \o <<"\n">>

\* a status line in which the name is not bracketed
BareStatLine(pid, name, code, ticks) ==
  Join(<<pid, name, <<code>>>>
         \o [i \in 1 .. ExpectedEntries - 3 |-> FieldToken(i + 2, ticks)])
    \o <<"\n">>

\* the process ids that may be alive, and their directory names
Pids == 1 .. MaxPid
PidName(p) == NatToStr(p)
PidNames == {PidName(p) : p \in Pids}

\* the entries of /proc that are not processes
OtherDirs == << <<"s", "e", "l", "f">> >>

\* what a read of the process table may find for one process id: no entry
\* ("absent"); an entry whose process exited before its cmdline ("gone") or
\* after its cmdline and before its stat ("exited") was read; or an entry
\* with one of the status lines below
LineKinds == {"A", "B", "long", "short", "bare"}
FileStates == {"absent", "gone", "exited"} \cup LineKinds

Name_sh == <<"s", "h">>
Name_my_p == <<"m", "y", " ", "p">>

StatText(pid, kind) ==
  CASE kind = "A"     -> StatLine(pid, Name_sh, "S", <<10, 5, 0, 0>>, ExpectedEntries)
    [] kind = "B"     -> StatLine(pid, Name_my_p, "R", <<70, 5, 0, 0>>, ExpectedEntries)
    [] kind = "long"  -> StatLine(pid, Name_sh, "S", <<21, 7, 3, 1, 0>>, ExpectedEntries + 1)
    [] kind = "short" -> StatLine(pid, Name_sh, "S", <<10, 5, 0, 0>>, ExpectedEntries - 1)
    [] kind = "bare"  -> BareStatLine(pid, Name_sh, "S", <<10, 5, 0, 0>>)

CmdlineText == <<"s", "h", NUL, "-", "c", NUL>>

\* the outputs of getconf CLK_TCK and getconf PAGESIZE
HertzOutputs == { <<"1", "0", "0", "\n">> }
PageSizeOutputs == { <<"4", "0", "9", "6", "\n">> }

\* the contents /proc/uptime may have; the last one has a single token
UptimeFiles ==
  { <<"1", "0", "0", ".", "0", "0", " ", "5", "0", ".", "0", "0", "\n">>,
    <<"1", "0", "0", ".", "5", "0", " ", "5", "0", ".", "2", "0", "\n">>,
    <<"1", "0", "5", ".", "0", "0", " ", "5", "2", ".", "0", "0", "\n">>,
    <<"1", "0", "5", ".", "0", "0", "\n">> }

\* os.cpus().length
NumCpus == 2

\* the delay given to setTimeout, and the times the timer may take to fire
TimerDelay == 500
TimerWaits == {TimerDelay, 2 * TimerDelay}

\* the file system as one read of the process table sees it
FileSystems == [PidNames -> FileStates]

\* fs.readdir('/proc'): the other entries, then the process ids in order
RECURSIVE ListPids(_, _)
ListPids(files, p) ==
  IF p > MaxPid THEN <<>>
  ELSE (IF files[PidName(p)] = "absent" THEN <<>> ELSE <<PidName(p)>>)
         \o ListPids(files, p + 1)

Readdir(files) == OtherDirs \o ListPids(files, 1)

\* the status lines of every process id and kind, each parsed once
ParsedLines ==
  { <<pid, kind, pageSize, ParseStat(pid, StatText(pid, kind), CmdlineText, pageSize)>> :
      pid \in PidNames, kind \in LineKinds, pageSize \in PageSizeOutputs }

ParsedStat(pid, kind, pageSize) ==
  (CHOOSE t \in ParsedLines : t[1] = pid /\ t[2] = kind /\ t[3] = pageSize)[4]

(***************************************************************************)
(* ps.readAll: the enumeration of /proc.                                   *)
(***************************************************************************)
\* dir.match(/[0-9]+$/): the digits the name ends in, <<>> if there are none
DirMatch(dir) == SubSeq(dir, PrevNotIn(dir, Len(dir), Digits) + 1, Len(dir))

\* processes[key] = entry
MapSet(m, key, entry) ==
  [k \in DOMAIN m \cup {key} |-> IF k = key THEN entry ELSE m[k]]

EmptyMap == [k \in {} |-> Undefined]

\* the callback of dirs.forEach for one entry: the exception it throws, or
\* the entry it stores
ReadProcess(files, PID, pageSize) ==
  LET st == IF PID \in DOMAIN files THEN files[PID] ELSE "absent"
  IN  IF st \in {"absent", "gone"} THEN Thrown("ENOENT", FALSE)
      ELSE IF st = "exited" THEN Thrown("ENOENT", FALSE)
      ELSE ParsedStat(PID, st, pageSize)

\* dirs.forEach from entry i on; it ends at the first exception
RECURSIVE ForEachDir(_, _, _, _, _)
ForEachDir(dirs, i, files, pageSize, acc) ==
  LET Warned(PID, r) == IF r.warned THEN acc.warned \cup {PID} ELSE acc.warned
      Store(PID, r) ==
        IF r.thrown
        THEN [acc EXCEPT !.thrown = TRUE, !.error = r.error,
                         !.warned = Warned(PID, r)]
        ELSE ForEachDir(dirs, i + 1, files, pageSize,
                        [acc EXCEPT !.visited = @ + 1,
                                    !.warned = Warned(PID, r),
                                    !.stores = Append(@, <<dirs[i], PID>>),
                                    !.processes = MapSet(@, PID, r.entry)])
      Visit(PID) ==
        IF PID = <<>>
        THEN ForEachDir(dirs, i + 1, files, pageSize,
                        [acc EXCEPT !.visited = @ + 1])
        ELSE Store(PID, ReadProcess(files, PID, pageSize))
  IN  IF i > Len(dirs) THEN acc ELSE Visit(DirMatch(dirs[i]))

\* the try block of the readdir callback, up to deferred.resolve
EnumerateProcesses(dirs, files, pageSize) ==
  ForEachDir(dirs, 1, files, pageSize,
             [thrown |-> FALSE, error |-> "none", warned |-> {},
              visited |-> 0, stores |-> <<>>, processes |-> EmptyMap])

\* a catch block that resolves with what has been collected
ReadPromise_resolvesInCatch(r) == "fulfilled"

\* the state of the promise of readAll when the readdir callback returns: the
\* catch block only logs, so a read that threw leaves the promise pending
ReadPromise(r) == IF r.thrown THEN "pending" ELSE "fulfilled"

(***************************************************************************)
(* ps: the cpu rates of the processes of two snapshots.                    *)
(***************************************************************************)
Hundred == Num(IntNum(100))

\* the user time without the time of the waited-for children
UserTime_ownOnly(proc) == proc.raw["utime"]

UserTime(proc) == JsPlus(proc.raw["utime"], proc.raw["cutime"])
SystemTime(proc) == JsPlus(proc.raw["stime"], proc.raw["cstime"])

\* a percentage that is cut off at 100
Percent_clamped(diff, elapsed) ==
  LET Cut(p) == IF NumLess(IntNum(100), p.q) THEN Hundred ELSE p
  IN  Cut(JsTimes(JsDivide(diff, elapsed), Hundred))

\* (diff/upDiff) * 100
Percent(diff, elapsed) == JsTimes(JsDivide(diff, elapsed), Hundred)

\* the cpu record of one process
CpuRecord(prevProcess, curProcess, hz, elapsed) ==
  LET Record(userDiff, systemDiff, totalDiff) ==
        [totalPercent  |-> Percent(totalDiff, elapsed),
         userPercent   |-> Percent(userDiff, elapsed),
         systemPercent |-> Percent(systemDiff, elapsed),
         raw           |-> [user |-> userDiff, system |-> systemDiff,
                            total |-> totalDiff]]
      Diffs(userDiff, systemDiff) ==
        Record(userDiff, systemDiff, JsPlus(userDiff, systemDiff))
  IN  Diffs(JsDivide(JsMinus(UserTime(curProcess), UserTime(prevProcess)), hz),
            JsDivide(JsMinus(SystemTime(curProcess), SystemTime(prevProcess)), hz))

\* p2processes[pid].cpu = rec
WithCpu(e, rec) ==
  [id |-> e.id, executable |-> e.executable, command |-> e.command,
   state |-> e.state, raw |-> e.raw, memory |-> e.memory, cpu |-> rec]

\* the identifiers the loop keeps: those with an entry in the baseline
KeptPids(prev, cur) == {pid \in DOMAIN cur : pid \in DOMAIN prev}

\* the loop without its delete: an identifier with no baseline entry stays
RateLoop_keepsNew(prev, cur, hz, elapsed) ==
  [pid \in DOMAIN cur |->
     IF pid \in DOMAIN prev
     THEN WithCpu(cur[pid], CpuRecord(prev[pid], cur[pid], hz, elapsed))
     ELSE cur[pid]]

\* the loop over Object.keys(p2processes): an identifier with no entry in
\* the baseline is deleted, every other one gets its cpu record.  No
\* statement of the loop body can throw on entries built by ParseStat.
RateLoop(prev, cur, hz, elapsed) ==
  [pid \in KeptPids(prev, cur) |->
     WithCpu(cur[pid], CpuRecord(prev[pid], cur[pid], hz, elapsed))]

\* a result whose idle time is not averaged over the cores
UptimeResult_idleNotAveraged(parts) ==
  [up        |-> Num(ParseFloat(parts[1])),
   idle      |-> Num(ParseFloat(parts[2])),
   idleTotal |-> Num(ParseFloat(parts[2]))]

\* the result of uptime() for a file of two tokens
UptimeResult(parts) ==
  [up        |-> Num(ParseFloat(parts[1])),
   idle      |-> JsDivide(Num(ParseFloat(parts[2])), Num(IntNum(NumCpus))),
   idleTotal |-> Num(ParseFloat(parts[2]))]

\* an elapsed time taken from the delay of the timer, in seconds
UpDiff_fromTimer(cur, prev) == Num(Rat(TimerDelay, 1000))

\* var upDiff = curUptime.up - prevUptime.up
UpDiff(cur, prev) == JsMinus(cur.up, prev.up)

\* the callback of fs.readFile('/proc/uptime') of uptime(): what it throws,
\* or the value the promise is resolved with
Uptime(err, data) ==
  LET Check(parts) ==
        IF Len(parts) # 2
        THEN [thrown |-> TRUE, error |-> "Invalid uptime file"]
        ELSE [thrown |-> FALSE, result |-> UptimeResult(parts)]
  IN  IF err # "none" THEN [thrown |-> TRUE, error |-> err]
      ELSE Check(Split(data))

(***************************************************************************)
(* The state of the program.                                               *)
(***************************************************************************)
\* the calls of ps() that may be in progress
CycleIds == {1, 2}

VARIABLES
  callers,      \* the cycles the caller starts
  pc,           \* per cycle: the callback the cycle is waiting for
  phase,        \* per cycle: 1 while the baseline is taken, 2 afterwards
  psPromise,    \* per cycle: the state of the promise ps() returned
  uncaught,     \* the exception that escaped a callback, "none" if none
  prevUptime,   \* per cycle: the closure variable prevUptime
  upDiff,       \* per cycle: the closure variable upDiff
  hertz,        \* per cycle: the closure variable hertz
  pagesize,     \* per cycle: the argument pagesize of the running readAll
  readP,        \* per cycle: the state of the promise of the running readAll
  processes,    \* per cycle: the baseline map
  p2processes,  \* per cycle: the current map, which ps() resolves with
  curSnapshot,  \* per cycle: the current map as readAll resolved it
  rdFiles,      \* per cycle: the file system the last enumeration saw
  visited,      \* per cycle: the entries the last enumeration got through
  warned,       \* per cycle: the ids console.warn was called for in it
  logged,       \* per cycle: the error console.log was given in it
  hist,         \* per cycle: the steps the cycle has taken, with their inputs
  pIn,          \* the line handed to the record parser
  pOut          \* what the record parser made of it

vars ==
  << callers, pc, phase, psPromise, uncaught, prevUptime, upDiff, hertz,
     pagesize, readP, processes, p2processes, curSnapshot, rdFiles, visited,
     warned, logged, hist, pIn, pOut >>

cycleVars ==
  << callers, pc, phase, psPromise, uncaught, prevUptime, upDiff, hertz,
     pagesize, readP, processes, p2processes, curSnapshot, rdFiles, visited,
     warned, logged, hist >>

NoFiles == [n \in PidNames |-> "absent"]
NoInput == <<>>
NoOutput == [parsed |-> FALSE]

InitCycles(cs) ==
  /\ callers = cs
  /\ pc = [c \in CycleIds |-> "idle"]
  /\ phase = [c \in CycleIds |-> 1]
  /\ psPromise = [c \in CycleIds |-> "none"]
  /\ uncaught = "none"
  /\ prevUptime = [c \in CycleIds |-> Undefined]
  /\ upDiff = [c \in CycleIds |-> Undefined]
  /\ hertz = [c \in CycleIds |-> <<>>]
  /\ pagesize = [c \in CycleIds |-> <<>>]
  /\ readP = [c \in CycleIds |-> "none"]
  /\ processes = [c \in CycleIds |-> EmptyMap]
  /\ p2processes = [c \in CycleIds |-> EmptyMap]
  /\ curSnapshot = [c \in CycleIds |-> EmptyMap]
  /\ rdFiles = [c \in CycleIds |-> NoFiles]
  /\ visited = [c \in CycleIds |-> 0]
  /\ warned = [c \in CycleIds |-> {}]
  /\ logged = [c \in CycleIds |-> "none"]
  /\ hist = [c \in CycleIds |-> <<>>]

Init ==
  /\ InitCycles({1})
  /\ pIn = NoInput
  /\ pOut = NoOutput

\* one step of a cycle and the input it was given
Event(ev, arg) == [ev |-> ev, arg |-> arg]

\* the steps evs are added to the history of cycle c
Log(c, evs) == hist' = [hist EXCEPT ![c] = @ \o evs]

\* an assignment to a variable that every cycle sees
SetLocal_shared(f, c, v) == [k \in CycleIds |-> v]

\* an assignment to a variable of the closure of cycle c
SetLocal(f, c, v) == [f EXCEPT ![c] = v]

\* what the cycles may be given: when more than one cycle runs, the inputs
\* are drawn from smaller sets, and so they are when pIn names the files
\* the system holds
Concurrent == Cardinality(callers) > 1
UptimeFilesNow ==
  IF Concurrent
  THEN {d \in UptimeFiles : Len(Split(d)) = 2 /\ ParseFloat(d)[2] = 1}
  ELSE IF pIn # NoInput THEN pIn.uptimeFiles
  ELSE UptimeFiles
FileSystemsNow ==
  IF Concurrent
  THEN {f \in FileSystems : \A n \in PidNames : f[n] \in {"absent", "A", "B"}
                                                /\ (n # PidName(1) => f[n] = "A")}
  ELSE IF pIn # NoInput THEN pIn.fileSystems
  ELSE FileSystems
TimerWaitsNow == IF Concurrent THEN {TimerDelay} ELSE TimerWaits

\* no exception has ended the process
Alive == uncaught = "none"

(***************************************************************************)
(* The steps of a ps() cycle, one per callback.                            *)
(***************************************************************************)
\* a ps() that asks for CLK_TCK without reading /proc/uptime first
Ps_clockTicksFirst(c) ==
  /\ Alive
  /\ c \in callers
  /\ pc[c] = "idle"
  /\ pc' = [pc EXCEPT ![c] = "getconf_clk"]
  /\ psPromise' = [psPromise EXCEPT ![c] = "pending"]
  /\ Log(c, <<Event("ps", <<>>)>>)
  /\ UNCHANGED << callers, phase, uncaught, prevUptime, upDiff, hertz, pagesize,
                  readP, processes, p2processes, curSnapshot, rdFiles, visited,
                  warned, logged, pIn, pOut >>

\* ps(): uptime() starts the read of /proc/uptime and the promise is returned
Ps(c) ==
  /\ Alive
  /\ c \in callers
  /\ pc[c] = "idle"
  /\ pc' = [pc EXCEPT ![c] = "uptime"]
  /\ psPromise' = [psPromise EXCEPT ![c] = "pending"]
  /\ Log(c, <<Event("ps", <<>>)>>)
  /\ UNCHANGED << callers, phase, uncaught, prevUptime, upDiff, hertz, pagesize,
                  readP, processes, p2processes, curSnapshot, rdFiles, visited,
                  warned, logged, pIn, pOut >>

\* the callback of fs.readFile('/proc/uptime') is given an error: it throws
UptimeError(c) ==
  /\ Alive
  /\ pc[c] = "uptime"
  /\ uncaught' = "EIO"
  /\ UNCHANGED << callers, pc, phase, psPromise, prevUptime, upDiff, hertz,
                  pagesize, readP, processes, p2processes, curSnapshot, rdFiles,
                  visited, warned, logged, hist,
                  pIn, pOut >>

\* the callback of fs.readFile('/proc/uptime') is given the file, and the
\* continuation of uptime() runs: the first one keeps prevUptime and asks for
\* CLK_TCK, the second one computes upDiff and starts readAll
UptimeCallback(c) ==
  /\ Alive
  /\ pc[c] = "uptime"
  /\ \E data \in UptimeFilesNow :
       \E parts \in {Split(data)} :
           IF Len(parts) # 2
           THEN /\ uncaught' = "Invalid uptime file"
                /\ UNCHANGED << pc, prevUptime, upDiff, hist >>
           ELSE /\ uncaught' = uncaught
                /\ IF phase[c] = 1
                   THEN /\ prevUptime' = SetLocal(prevUptime, c, UptimeResult(parts))
                        /\ pc' = [pc EXCEPT ![c] = "getconf_clk"]
                        /\ upDiff' = upDiff
                        /\ Log(c, <<Event("uptime", data)>>)
                   ELSE /\ upDiff' = SetLocal(upDiff, c,
                                              UpDiff(UptimeResult(parts), prevUptime[c]))
                        /\ pc' = [pc EXCEPT ![c] = "getconf_page"]
                        /\ prevUptime' = prevUptime
                        /\ Log(c, <<Event("uptime", data),
                                    Event("read_started", <<>>)>>)
  /\ UNCHANGED << callers, phase, psPromise, hertz, pagesize, readP, processes,
                  p2processes, curSnapshot, rdFiles, visited, warned, logged,
                  pIn, pOut >>

\* getconf CLK_TCK has closed: hertz is its output, and readAll() starts by
\* asking for PAGESIZE
GetconfClkTck(c) ==
  /\ Alive
  /\ pc[c] = "getconf_clk"
  /\ \E out \in HertzOutputs :
       /\ hertz' = SetLocal(hertz, c, out)
       /\ Log(c, <<Event("clk_tck", out), Event("read_started", <<>>)>>)
  /\ pc' = [pc EXCEPT ![c] = "getconf_page"]
  /\ UNCHANGED << callers, phase, psPromise, uncaught, prevUptime, upDiff,
                  pagesize, readP, processes, p2processes, curSnapshot, rdFiles,
                  visited, warned, logged, pIn, pOut >>

\* getconf PAGESIZE has closed: fs.readdir('/proc') is started
GetconfPagesize(c) ==
  /\ Alive
  /\ pc[c] = "getconf_page"
  /\ \E out \in PageSizeOutputs :
       /\ pagesize' = [pagesize EXCEPT ![c] = out]
       /\ Log(c, <<Event("pagesize", out)>>)
  /\ pc' = [pc EXCEPT ![c] = "readdir"]
  /\ readP' = [readP EXCEPT ![c] = "pending"]
  /\ UNCHANGED << callers, phase, psPromise, uncaught, prevUptime, upDiff, hertz,
                  processes, p2processes, curSnapshot, rdFiles, visited, warned,
                  logged, pIn, pOut >>

\* the callback of fs.readdir is given an error: it throws, outside its try
ReaddirError(c) ==
  /\ Alive
  /\ pc[c] = "readdir"
  /\ uncaught' = "EACCES"
  /\ UNCHANGED << callers, pc, phase, psPromise, prevUptime, upDiff, hertz,
                  pagesize, readP, processes, p2processes, curSnapshot, rdFiles,
                  visited, warned, logged, hist,
                  pIn, pOut >>

\* the callback of fs.readdir is given the listing: every entry is read and
\* parsed, and the map is resolved unless an exception reached the catch
ReaddirCallback(c) ==
  /\ Alive
  /\ pc[c] = "readdir"
  /\ \E files \in FileSystemsNow :
       /\ rdFiles' = [rdFiles EXCEPT ![c] = files]
       /\ \E r \in {EnumerateProcesses(Readdir(files), files, pagesize[c])} :
         \E settled \in {ReadPromise(r) = "fulfilled"} :
           /\ visited' = [visited EXCEPT ![c] = r.visited]
           /\ warned' = [warned EXCEPT ![c] = r.warned]
           /\ logged' = [logged EXCEPT ![c] = r.error]
           /\ readP' = [readP EXCEPT ![c] = ReadPromise(r)]
           /\ pc' = [pc EXCEPT ![c] = IF settled THEN "read_then" ELSE "stalled"]
           /\ processes' = IF settled /\ phase[c] = 1
                           THEN SetLocal(processes, c, r.processes)
                           ELSE processes
           /\ p2processes' = IF settled /\ phase[c] = 2
                             THEN SetLocal(p2processes, c, r.processes)
                             ELSE p2processes
           /\ curSnapshot' = IF settled /\ phase[c] = 2
                             THEN [curSnapshot EXCEPT ![c] = r.processes]
                             ELSE curSnapshot
           /\ Log(c, <<Event("read", files)>>)
  /\ UNCHANGED << callers, phase, psPromise, uncaught, prevUptime, upDiff, hertz,
                  pagesize, pIn, pOut >>

\* a continuation of the first readAll() that calls uptime() at once
BaselineRead_noTimer(c) ==
  /\ Alive
  /\ pc[c] = "read_then"
  /\ phase[c] = 1
  /\ pc' = [pc EXCEPT ![c] = "uptime"]
  /\ phase' = [phase EXCEPT ![c] = 2]
  /\ readP' = [readP EXCEPT ![c] = "none"]
  /\ UNCHANGED << callers, psPromise, uncaught, prevUptime, upDiff, hertz,
                  pagesize, processes, p2processes, curSnapshot, rdFiles,
                  visited, warned, logged, hist, pIn, pOut >>

\* the continuation of the first readAll(): the timer is started
BaselineRead(c) ==
  /\ Alive
  /\ pc[c] = "read_then"
  /\ phase[c] = 1
  /\ pc' = [pc EXCEPT ![c] = "timer"]
  /\ Log(c, <<Event("timer_started", TimerDelay)>>)
  /\ UNCHANGED << callers, phase, psPromise, uncaught, prevUptime, upDiff, hertz,
                  pagesize, readP, processes, p2processes, curSnapshot, rdFiles,
                  visited, warned, logged, pIn, pOut >>

\* a timer that is cleared instead of firing
TimerFires_cancelled(c) ==
  /\ Alive
  /\ pc[c] = "timer"
  /\ pc' = [pc EXCEPT ![c] = "done"]
  /\ UNCHANGED << callers, phase, psPromise, uncaught, prevUptime, upDiff, hertz,
                  pagesize, readP, processes, p2processes, curSnapshot, rdFiles,
                  visited, warned, logged, hist, pIn, pOut >>

\* the timer fires: uptime() is called again
TimerFires(c) ==
  /\ Alive
  /\ pc[c] = "timer"
  /\ pc' = [pc EXCEPT ![c] = "uptime"]
  /\ phase' = [phase EXCEPT ![c] = 2]
  /\ readP' = [readP EXCEPT ![c] = "none"]
  /\ \E waited \in TimerWaitsNow : Log(c, <<Event("timer_fired", waited)>>)
  /\ UNCHANGED << callers, psPromise, uncaught, prevUptime, upDiff, hertz,
                  pagesize, processes, p2processes, curSnapshot, rdFiles,
                  visited, warned, logged, pIn, pOut >>

\* a continuation that runs the rate loop and leaves the promise pending
ComputeRates_noResolve(c) ==
  /\ Alive
  /\ pc[c] = "read_then"
  /\ phase[c] = 2
  /\ p2processes' = [p2processes EXCEPT
                       ![c] = RateLoop(processes[c], p2processes[c],
                                       Str(hertz[c]), upDiff[c])]
  /\ pc' = [pc EXCEPT ![c] = "done"]
  /\ Log(c, <<Event("rates", <<>>)>>)
  /\ UNCHANGED << callers, phase, psPromise, uncaught, prevUptime, upDiff, hertz,
                  pagesize, readP, processes, curSnapshot, rdFiles, visited,
                  warned, logged, pIn, pOut >>

\* the continuation of the second readAll(): the rate loop runs over the
\* current map and ps() resolves with that map
ComputeRates(c) ==
  /\ Alive
  /\ pc[c] = "read_then"
  /\ phase[c] = 2
  /\ p2processes' = [p2processes EXCEPT
                       ![c] = RateLoop(processes[c], p2processes[c],
                                       Str(hertz[c]), upDiff[c])]
  /\ psPromise' = [psPromise EXCEPT ![c] = "fulfilled"]
  /\ pc' = [pc EXCEPT ![c] = "done"]
  /\ Log(c, <<Event("rates", <<>>)>>)
  /\ UNCHANGED << callers, phase, uncaught, prevUptime, upDiff, hertz, pagesize,
                  readP, processes, curSnapshot, rdFiles, visited, warned,
                  logged, pIn, pOut >>

Next ==
  \E c \in CycleIds :
    \/ Ps(c)
    \/ UptimeError(c)
    \/ UptimeCallback(c)
    \/ GetconfClkTck(c)
    \/ GetconfPagesize(c)
    \/ ReaddirError(c)
    \/ ReaddirCallback(c)
    \/ BaselineRead(c)
    \/ TimerFires(c)
    \/ ComputeRates(c)

Spec == Init /\ [][Next]_vars

\* a callback cycle c waits for is run without an error: the output of the
\* helper is handed over, the timer is set, or it fires
Callback(c) ==
  \/ GetconfClkTck(c)
  \/ GetconfPagesize(c)
  \/ BaselineRead(c)
  \/ TimerFires(c)

\* the steps of UptimeCallback that do not throw, of ReaddirCallback and of
\* ComputeRates, named by what they do to pc (under Next no other step does
\* it), so that ENABLED need not parse the files nor compute the maps
MapCallback(c) ==
  \/ /\ Alive
     /\ pc[c] = "uptime"
     /\ pc' = [pc EXCEPT ![c] = IF phase[c] = 1 THEN "getconf_clk"
                                ELSE "getconf_page"]
  \/ /\ Alive
     /\ pc[c] = "readdir"
     /\ \E to \in {"read_then", "stalled"} : pc' = [pc EXCEPT ![c] = to]
  \/ /\ Alive
     /\ pc[c] = "read_then"
     /\ phase[c] = 2
     /\ pc' = [pc EXCEPT ![c] = "done"]

\* a system whose files are as the kernel writes them: /proc/uptime holds
\* two tokens, no process exits while it is read and every status line has
\* 52 tokens and a bracketed name
InitFair ==
  /\ InitCycles({1})
  /\ pIn = [uptimeFiles |-> {d \in UptimeFiles : Len(Split(d)) = 2},
            fileSystems |-> [PidNames -> {"absent", "A", "B"}]]
  /\ pOut = NoOutput

\* one cycle on such a system: the event loop of node runs every callback
\* that is ready, and a timer that was set fires
SpecFair ==
  /\ InitFair /\ [][Next]_vars
  /\ \A c \in CycleIds : WF_vars(Callback(c)) /\ WF_pc(MapCallback(c))

\* two calls of ps() whose cycles run side by side
InitTwo ==
  /\ InitCycles({1, 2})
  /\ pIn = NoInput
  /\ pOut = NoOutput

SpecTwo == InitTwo /\ [][Next]_vars

(***************************************************************************)
(* The record parser on its own: one status line is handed to the body of  *)
(* the dirs.forEach callback and the entry it builds is kept.              *)
(***************************************************************************)
\* the characters a process name is made of here
NameAlphabet == {"a", " ", "$", "&"}

\* the process names of length 1 .. MaxNameLen
ParseNames == UNION {[1 .. n -> NameAlphabet] : n \in 1 .. MaxNameLen}

\* the tokens of a well-formed status line, the bracketed name being one
LineTokens(pid, name, code, ticks) ==
  <<pid, <<"(">> \o name \o <<")">>, <<code>>>>
    \o [i \in 1 .. ExpectedEntries - 3 |-> FieldToken(i + 2, ticks)]

\* the state tokens of the lines: the codes the switch lists, the code of
\* an idle kernel thread, and a token that is no letter
StateCodes ==
  {"S", "R", "D", "Z", "T", "t", "W", "X", "x", "K", "P", "I", "."}

\* a process name that holds the pattern $& and a number between two spaces
NumberedName == <<"$", "&", " ", "7", " ", "x">>

\* the lines the parser is given
ParseInputs ==
  [pid : PidNames, name : ParseNames \cup {NumberedName}, code : StateCodes,
   ticks : {<<10, 5, 0, 0>>}, pageSize : PageSizeOutputs]

InitParse ==
  /\ InitCycles({})
  /\ pIn \in ParseInputs
  /\ pOut = NoOutput

\* the stat file of pIn.pid is read and parsed
ParseLine ==
  /\ pIn # NoInput
  /\ ~pOut.parsed
  /\ pOut' = [parsed |-> TRUE,
              r |-> ParseStat(pIn.pid,
                              StatLine(pIn.pid, pIn.name, pIn.code, pIn.ticks,
                                       ExpectedEntries),
                              CmdlineText, pIn.pageSize)]
  /\ UNCHANGED << pIn, cycleVars >>

NextParse == ParseLine

SpecParse == InitParse /\ [][NextParse]_vars

(***************************************************************************)
(* The enumeration on its own: one listing of /proc is handed to the       *)
(* readdir callback of readAll.                                            *)
(***************************************************************************)
\* an entry of /proc that ends in digits without being a number
OddDirs == << <<"x", "1">> >>

\* the listings of /proc for a file system: as readdir gives it, or with
\* the odd entry before or after the others
Listings(files) ==
  {Readdir(files), OddDirs \o Readdir(files), Readdir(files) \o OddDirs}

\* the listings and files the enumeration is given
ReadInputs ==
  UNION {[dirs : Listings(files), files : {files}, pageSize : PageSizeOutputs] :
           files \in FileSystems}

InitRead ==
  /\ InitCycles({})
  /\ pIn \in ReadInputs
  /\ pOut = NoOutput

\* the try block of the readdir callback runs over the listing
ReadAll ==
  /\ pIn # NoInput
  /\ ~pOut.parsed
  /\ pOut' = [parsed |-> TRUE,
              r |-> EnumerateProcesses(pIn.dirs, pIn.files, pIn.pageSize)]
  /\ UNCHANGED << pIn, cycleVars >>

NextRead == ReadAll

SpecRead == InitRead /\ [][NextRead]_vars

(***************************************************************************)
(* uptime() on its own: one content of /proc/uptime is handed to the       *)
(* readFile callback.                                                      *)
(***************************************************************************)
\* the tokens of the files: two numbers, a word and the empty token, which
\* stands between two adjacent spaces
UptimeTokens ==
  {<<"1", "0", "0", ".", "5", "0">>, <<"7">>, <<"x">>, <<>>}

\* the files: up to MaxUptimeTokens tokens joined by single spaces, with or
\* without the newline the kernel ends the line with
UptimeTexts ==
  {Join(toks) \o nl :
     toks \in UNION {[1 .. n -> UptimeTokens] : n \in 1 .. MaxUptimeTokens},
     nl \in {<<>>, <<"\n">>}}

\* what readFile may hand to the callback
UptimeInputs == [err : {"none", "EIO"}, data : UptimeTexts]

InitUptime ==
  /\ InitCycles({})
  /\ pIn \in UptimeInputs
  /\ pOut = NoOutput

\* the readFile callback of uptime() runs
UptimeOnce ==
  /\ pIn # NoInput
  /\ ~pOut.parsed
  /\ pOut' = [parsed |-> TRUE, r |-> Uptime(pIn.err, pIn.data)]
  /\ UNCHANGED << pIn, cycleVars >>

NextUptime == UptimeOnce

SpecUptime == InitUptime /\ [][NextUptime]_vars

(***************************************************************************)
(* df() on its own: one output of df -H is handed to the continuation of   *)
(* _exec.                                                                  *)
(***************************************************************************)
\* s.split(sep) for a separator of one character, from index i on
RECURSIVE SplitAt(_, _, _)
SplitAt(s, sep, i) ==
  LET Cut(j) == IF j > Len(s) THEN <<SubSeq(s, i, Len(s))>>
                ELSE <<SubSeq(s, i, j - 1)>> \o SplitAt(s, sep, j + 1)
  IN  Cut(NextIn(s, i, {sep}))

\* line.replace(/\s+/g, ' '): every run of white space becomes one space
CollapseWhiteSpace(s) ==
  LET Build(kept) ==
        [k \in 1 .. Len(kept) |->
           IF s[kept[k]] \in WhiteSpace THEN SP ELSE s[kept[k]]]
  IN  Build(SelectSeq([i \in 1 .. Len(s) |-> i],
                      LAMBDA i : \/ s[i] \notin WhiteSpace
                                 \/ i = 1
                                 \/ s[i - 1] \notin WhiteSpace))

\* the characters of [0-9\.] and of [TMG]
SizeChars == Digits \cup {"."}
SizeSuffixes == {"T", "M", "G"}

\* (new RegExp('([0-9\.]+)([TMG]{1})', 'g')).exec(s) tried from index i on:
\* the leftmost run of digits and dots that a T, an M or a G follows
RECURSIVE ExecSize(_, _)
ExecSize(s, i) ==
  LET Run(from, to) ==
        IF from > Len(s) THEN NoMatch
        ELSE IF to <= Len(s) /\ s[to] \in SizeSuffixes
        THEN [found |-> TRUE, size |-> SubSeq(s, from, to - 1), suffix |-> s[to]]
        ELSE ExecSize(s, to + 1)
      Start(from) == Run(from, NextNotIn(s, from, SizeChars))
  IN  Start(NextIn(s, i, SizeChars))

\* a conversion with the factors of the decimal units df -H prints
ConvertToBytes_decimal(string) ==
  LET Value(sizeParts) ==
        IF ~sizeParts.found THEN Num(IntNum(0))
        ELSE JsTimes(Num(ParseFloat(sizeParts.size)),
                     Num(IntNum(CASE sizeParts.suffix = "T" -> 1000 * 1000
                                  [] sizeParts.suffix = "G" -> 1000
                                  [] sizeParts.suffix = "M" -> 1)))
  IN  Value(ExecSize(string, 1))

\* convertToBytes of df: (parseFloat(size) * a) / 1024.  The factors are
\* powers of two, so the product and the quotient are exact and equal to
\* parseFloat(size) * (a / 1024); the quotient of the factors is taken
\* first, which keeps the numbers within the integers of TLC
ConvertToBytes(string) ==
  LET Value(sizeParts) ==
        IF ~sizeParts.found THEN Num(IntNum(0))
        ELSE CASE sizeParts.suffix = "T" ->
                    JsTimes(Num(ParseFloat(sizeParts.size)),
                            JsDivide(Num(IntNum(1024 * 1024 * 1024)),
                                     Num(IntNum(1024))))
               [] sizeParts.suffix = "G" ->
                    JsTimes(Num(ParseFloat(sizeParts.size)),
                            JsDivide(Num(IntNum(1024 * 1024)),
                                     Num(IntNum(1024))))
               [] sizeParts.suffix = "M" -> Num(ParseFloat(sizeParts.size))
  IN  Value(ExecSize(string, 1))

\* the entry df[offset] of a line of six parts
DfEntry(parts) ==
  [filesystem |-> parts[1],
   capacity   |-> [size |-> ConvertToBytes(parts[2]), unit |-> "M"],
   used       |-> [size |-> ConvertToBytes(parts[3]), unit |-> "M"],
   available  |-> [size |-> ConvertToBytes(parts[4]), unit |-> "M"],
   remaining  |-> JsMinus(Hundred,
                          Num(ParseFloat(StringReplace(parts[5], <<"%">>, <<>>)))),
   mountPoint |-> parts[6],
   raw        |-> parts]

\* the array df() resolves with, as a function of the offsets that were
\* assigned: the first line is spliced off, and a line that has not six
\* parts leaves its offset empty
Df(output) ==
  LET Parts(line) == Split(CollapseWhiteSpace(line))
      Entries(lines) ==
        [offset \in {k \in 0 .. Len(lines) - 1 : Len(Parts(lines[k + 1])) = 6}
           |-> DfEntry(Parts(lines[offset + 1]))]
  IN  Entries(Tail(SplitAt(output, "\n", 1)))

\* the sizes df -H prints: with a suffix, without one, and in kilobytes
DfSizes ==
  {<<"7", "7", "G">>, <<"5", ".", "8", "T">>, <<"2", "8", "M">>, <<"0">>,
   <<"5", "1", "2", "k">>}

\* the columns of the lines of df: six of them, or seven when the mount
\* point holds a space
DfLines ==
  {<<<<"u", "d", "e", "v">>, size, used, size, <<"1", "%">>, <<"/">>>> :
     size \in DfSizes, used \in DfSizes}
  \cup {<<<<"u", "d", "e", "v">>, <<"7", "7", "G">>, <<"0">>, <<"7", "7", "G">>,
          <<"0", "%">>, <<"/", "a">>, <<"b">>>>}

\* columns set apart by two spaces
RECURSIVE Columns(_)
Columns(cols) ==
  IF Len(cols) = 1 THEN cols[1]
  ELSE cols[1] \o <<SP, SP>> \o Columns(Tail(cols))

DfHeader ==
  <<<<"F", "s">>, <<"S", "i", "z", "e">>, <<"U", "s", "e", "d">>,
    <<"A", "v", "a", "i", "l">>, <<"U", "s", "e", "%">>,
    <<"M", "o", "u", "n", "t", "e", "d">>, <<"o", "n">>>>

\* the output of df -H: the header and the lines, each ended by a newline
RECURSIVE DfText(_)
DfText(lines) ==
  IF lines = <<>> THEN <<>>
  ELSE Columns(lines[1]) \o <<"\n">> \o DfText(Tail(lines))

DfInputs ==
  [lines : UNION {[1 .. n -> DfLines] : n \in 1 .. MaxDfLines}]

InitDf ==
  /\ InitCycles({})
  /\ pIn \in DfInputs
  /\ pOut = NoOutput

\* _exec('df', ['-H']) resolves and its continuation runs
DfOnce ==
  /\ pIn # NoInput
  /\ ~pOut.parsed
  /\ pOut' = [parsed |-> TRUE, r |-> Df(DfText(<<DfHeader>> \o pIn.lines))]
  /\ UNCHANGED << pIn, cycleVars >>

NextDf == DfOnce

SpecDf == InitDf /\ [][NextDf]_vars

(***************************************************************************)
(* memory() on its own: one content of /proc/meminfo is handed to the      *)
(* readFile callback.                                                      *)
(***************************************************************************)
\* parseInt(s, 10): [ws] [sign] digits, NaN if there is no digit
ParseInt(s) ==
  LET Value(neg, p1, ie) ==
        IF ie < p1 THEN NaN
        ELSE IntNum(IF neg THEN -DigitsVal(s, p1, ie) ELSE DigitsVal(s, p1, ie))
      Signed(neg, p1) == Value(neg, p1, DigitRunEnd(s, p1))
      Start(p0) ==
        IF p0 <= Len(s) /\ s[p0] \in {"-", "+"}
        THEN Signed(s[p0] = "-", p0 + 1) ELSE Signed(FALSE, p0)
  IN  Start(SkipWhiteSpace(s, 1))

\* memoryMap after the first n lines: a line that splits at ':' into two
\* parts sets the entry of its first part
RECURSIVE MemoryMap(_, _)
MemoryMap(lines, n) ==
  LET Entry(byteParts) ==
        [size |-> Num(ParseInt(byteParts[1])),
         unit |-> IF Len(byteParts) >= 2 THEN Str(byteParts[2]) ELSE Undefined]
      Add(memoryMap, parts) ==
        IF Len(parts) # 2 THEN memoryMap
        ELSE MapSet(memoryMap, parts[1], Entry(Split(Trim(parts[2]))))
  IN  IF n = 0 THEN EmptyMap
      ELSE Add(MemoryMap(lines, n - 1), SplitAt(lines[n], ":", 1))

\* the keys of /proc/meminfo the code and the inputs name
MemKeys ==
  [MemTotal |-> <<"M", "e", "m", "T", "o", "t", "a", "l">>,
   MemFree |-> <<"M", "e", "m", "F", "r", "e", "e">>,
   MemAvailable |-> <<"M", "e", "m", "A", "v", "a", "i", "l", "a", "b", "l", "e">>,
   Buffers |-> <<"B", "u", "f", "f", "e", "r", "s">>,
   Cached |-> <<"C", "a", "c", "h", "e", "d">>,
   SwapCached |-> <<"S", "w", "a", "p", "C", "a", "c", "h", "e", "d">>,
   SwapTotal |-> <<"S", "w", "a", "p", "T", "o", "t", "a", "l">>,
   SwapFree |-> <<"S", "w", "a", "p", "F", "r", "e", "e">>,
   HugePages_Total |-> <<"H", "u", "g", "e", "P", "a", "g", "e", "s", "_", "T", "o", "t", "a", "l">>]

\* memoryMap[key], undefined when no line has set it
MapGet(memoryMap, key) ==
  IF key \in DOMAIN memoryMap THEN memoryMap[key] ELSE Undefined

\* a value whose used ram is counted from MemTotal
MemoryResult_usedFromTotal(memoryMap) ==
  [thrown |-> FALSE,
   ram  |-> [total   |-> memoryMap[MemKeys.MemAvailable],
             used    |-> [size |-> JsMinus(JsMinus(memoryMap[MemKeys.MemTotal].size,
                                                   memoryMap[MemKeys.MemFree].size),
                                            memoryMap[MemKeys.Cached].size),
                          unit |-> memoryMap[MemKeys.MemAvailable].unit],
             free    |-> memoryMap[MemKeys.MemFree],
             cached  |-> memoryMap[MemKeys.Cached],
             buffers |-> MapGet(memoryMap, MemKeys.Buffers)],
   swap |-> [total  |-> memoryMap[MemKeys.SwapTotal],
             used   |-> [size |-> JsMinus(JsMinus(memoryMap[MemKeys.SwapTotal].size,
                                                  memoryMap[MemKeys.SwapFree].size),
                                           memoryMap[MemKeys.SwapCached].size),
                         unit |-> memoryMap[MemKeys.SwapTotal].unit],
             free   |-> memoryMap[MemKeys.SwapFree],
             cached |-> memoryMap[MemKeys.SwapCached]],
   raw  |-> memoryMap]

\* the value memory() resolves with, for a map that has the six entries the
\* code reads the size of
MemoryResult(memoryMap) ==
  [thrown |-> FALSE,
   ram  |-> [total   |-> memoryMap[MemKeys.MemAvailable],
             used    |-> [size |-> JsMinus(JsMinus(memoryMap[MemKeys.MemAvailable].size,
                                                   memoryMap[MemKeys.MemFree].size),
                                            memoryMap[MemKeys.Cached].size),
                          unit |-> memoryMap[MemKeys.MemAvailable].unit],
             free    |-> memoryMap[MemKeys.MemFree],
             cached  |-> memoryMap[MemKeys.Cached],
             buffers |-> MapGet(memoryMap, MemKeys.Buffers)],
   swap |-> [total  |-> memoryMap[MemKeys.SwapTotal],
             used   |-> [size |-> JsMinus(JsMinus(memoryMap[MemKeys.SwapTotal].size,
                                                  memoryMap[MemKeys.SwapFree].size),
                                           memoryMap[MemKeys.SwapCached].size),
                         unit |-> memoryMap[MemKeys.SwapTotal].unit],
             free   |-> memoryMap[MemKeys.SwapFree],
             cached |-> memoryMap[MemKeys.SwapCached]],
   raw  |-> memoryMap]

\* the callback of fs.readFile('/proc/meminfo'): err is not looked at, so
\* with an error data is undefined and data.toString() throws; so does the
\* read of .size of an entry that no line has set
MemInfo(err, data) ==
  LET Resolve(memoryMap) ==
        IF {MemKeys.MemAvailable, MemKeys.MemFree, MemKeys.Cached,
            MemKeys.SwapTotal, MemKeys.SwapFree, MemKeys.SwapCached}
             \subseteq DOMAIN memoryMap
        THEN MemoryResult(memoryMap)
        ELSE [thrown |-> TRUE, error |-> "TypeError"]
      Lines(lines) == Resolve(MemoryMap(lines, Len(lines)))
  IN  IF err # "none" THEN [thrown |-> TRUE, error |-> "TypeError"]
      ELSE Lines(SplitAt(data, "\n", 1))

\* a line "key:   value kB" of the kernel, or "key:   value" without a unit
MemLine(key, value, unit) ==
  [key |-> key, value |-> value, unit |-> unit]
KiloBytes == <<"k", "B">>

\* the lines of /proc/meminfo: MemAvailable is missing from the files of
\* old kernels
MemInfoLines(avail, cached, swapFree, old) ==
  <<MemLine(MemKeys.MemTotal, 1000, KiloBytes),
    MemLine(MemKeys.MemFree, 100, KiloBytes)>>
  \o (IF old THEN <<>> ELSE <<MemLine(MemKeys.MemAvailable, avail, KiloBytes)>>)
  \o <<MemLine(MemKeys.Buffers, 20, KiloBytes),
       MemLine(MemKeys.Cached, cached, KiloBytes),
       MemLine(MemKeys.SwapCached, 10, KiloBytes),
       MemLine(MemKeys.SwapTotal, 500, KiloBytes),
       MemLine(MemKeys.SwapFree, swapFree, KiloBytes),
       MemLine(MemKeys.HugePages_Total, 0, <<>>)>>

\* lines that are not of the form "key: value": none, an empty one, and one
\* without a colon
OtherLines == {<<>>, <<<<>>>>, <<<<"x", " ", "1">>>>}

MemInfoInputs ==
  [err   : {"none", "EIO"},
   lines : {MemInfoLines(avail, cached, swapFree, old) :
              avail \in {900, 250}, cached \in {200, 0}, swapFree \in {300, 500},
              old \in BOOLEAN},
   other : OtherLines]

\* the text of the file: the other lines first, every line ended by a newline
RECURSIVE MemInfoText(_)
MemInfoText(lines) ==
  IF lines = <<>> THEN <<>>
  ELSE (IF "key" \in DOMAIN lines[1]
        THEN lines[1].key \o <<":", SP, SP, SP>> \o NatToStr(lines[1].value)
               \o (IF lines[1].unit = <<>> THEN <<>> ELSE <<SP>> \o lines[1].unit)
        ELSE lines[1].text)
         \o <<"\n">> \o MemInfoText(Tail(lines))

InitMemory ==
  /\ InitCycles({})
  /\ pIn \in MemInfoInputs
  /\ pOut = NoOutput

\* the readFile callback of memory() runs
MemoryOnce ==
  /\ pIn # NoInput
  /\ ~pOut.parsed
  /\ pOut' = [parsed |-> TRUE,
              r |-> MemInfo(pIn.err,
                            MemInfoText([i \in 1 .. Len(pIn.other) |->
                                           [text |-> pIn.other[i]]]
                                        \o pIn.lines))]
  /\ UNCHANGED << pIn, cycleVars >>

NextMemory == MemoryOnce

SpecMemory == InitMemory /\ [][NextMemory]_vars

(***************************************************************************)
(* cpuUsage() on its own: one answer of os.cpus() is handed to it.  The    *)
(* times and the percentages are kept as rationals.                        *)
(***************************************************************************)
\* Math.round: the nearest integer, a half rounded up
MathRound(q) ==
  IF ~IsFinite(q) THEN q
  ELSE IntNum((2 * q[1] + q[2]) \div (2 * q[2]))

\* cpuCoresPercent[offset] for a core whose times are cpu: the rounded
\* share of every key, the sum of the rounded shares of the keys other than
\* idle, and the raw times
CpuCore(cpu) ==
  LET Share(key, total) ==
        MathRound(NumMul(IntNum(100), NumDiv(IntNum(cpu[key]), IntNum(total))))
      Core(user, nice, sys, idle, irq) ==
        [user |-> user, nice |-> nice, sys |-> sys, idle |-> idle, irq |-> irq,
         total |-> [percent |-> NumAdd(NumAdd(NumAdd(NumAdd(IntNum(0), user),
                                                     nice), sys), irq),
                    raw |-> [idle  |-> IntNum(0 + cpu.idle),
                             usage |-> IntNum(0 + cpu.user + cpu.nice + cpu.sys
                                                + cpu.irq)]],
         raw |-> cpu]
      Shares(total) ==
        Core(Share("user", total), Share("nice", total),
             Share("sys", total), Share("idle", total),
             Share("irq", total))
  IN  Shares(0 + cpu.user + cpu.nice + cpu.sys + cpu.idle + cpu.irq)

\* totalIdle, totalUsage and totalPercent after the first n cores
RECURSIVE CoreTotals(_, _)
CoreTotals(cores, n) ==
  LET Add(t, core) ==
        [idle    |-> NumAdd(t.idle, core.total.raw.idle),
         usage   |-> NumAdd(t.usage, core.total.raw.usage),
         percent |-> NumAdd(t.percent, core.total.percent)]
  IN  IF n = 0
      THEN [idle |-> IntNum(0), usage |-> IntNum(0), percent |-> IntNum(0)]
      ELSE Add(CoreTotals(cores, n - 1), cores[n])

\* a result whose overall percentage is the mean of the cores'
CpuUsage_meanPercent(cpus) ==
  LET Result(cores, t) ==
        [total |-> [raw |-> [idle |-> t.idle, usage |-> t.usage],
                    percent |-> NumDiv(t.percent, IntNum(Len(cpus)))],
         cores |-> cores]
      Cores(cores) == Result(cores, CoreTotals(cores, Len(cores)))
  IN  Cores([offset \in 1 .. Len(cpus) |-> CpuCore(cpus[offset])])

\* the value cpuUsage() resolves with
CpuUsage(cpus) ==
  LET Result(cores, t) ==
        [total |-> [raw |-> [idle |-> t.idle, usage |-> t.usage],
                    percent |-> t.percent],
         cores |-> cores]
      Cores(cores) == Result(cores, CoreTotals(cores, Len(cores)))
  IN  Cores([offset \in 1 .. Len(cpus) |-> CpuCore(cpus[offset])])

\* the times of a core, in the order of Object.keys(cpu.times)
CpuTimes ==
  [user : {0, 1}, nice : {0, 1}, sys : {0, 1}, idle : {0, 1, MaxTime},
   irq : {0, MaxTime}]

\* os.cpus(): the times of every core
CpuInputs == [cpus : [1 .. NumCpus -> CpuTimes]]

InitCpuUsage ==
  /\ InitCycles({})
  /\ pIn \in CpuInputs
  /\ pOut = NoOutput

\* cpuUsage() runs
CpuUsageOnce ==
  /\ pIn # NoInput
  /\ ~pOut.parsed
  /\ pOut' = [parsed |-> TRUE, r |-> CpuUsage(pIn.cpus)]
  /\ UNCHANGED << pIn, cycleVars >>

NextCpuUsage == CpuUsageOnce

SpecCpuUsage == InitCpuUsage /\ [][NextCpuUsage]_vars

(***************************************************************************)
(* Properties of the sample cycle (Spec).                                  *)
(***************************************************************************)
\* the cycles whose promise has been resolved
Resolved(c) == psPromise[c] = "fulfilled"

\* the readdir callback of the running readAll has returned
ReadDone(c) == pc[c] \in {"read_then", "stalled"}

\* the map the running readAll has built
Snapshot(c) == IF phase[c] = 1 THEN processes[c] ELSE curSnapshot[c]

\* the identifiers /proc listed, and those whose process had exited
Listed(files) == {n \in PidNames : files[n] # "absent"}
Vanished(files) == {n \in PidNames : files[n] \in {"gone", "exited"}}
OfKind(files, kinds) == {n \in PidNames : files[n] \in kinds}

\* the kinds of status line that have 52 tokens and a bracketed name
WellFormed == {"A", "B"}

\* C1: the map ps() resolves with holds exactly the identifiers present in
\* both the baseline and the current snapshot, and every entry of it carries
\* a cpu record
C1_ResultIsIntersection ==
  \A c \in CycleIds :
    Resolved(c) =>
      /\ DOMAIN p2processes[c] = DOMAIN processes[c] \cap DOMAIN curSnapshot[c]
      /\ \A pid \in DOMAIN p2processes[c] :
           "cpu" \in DOMAIN p2processes[c][pid]

\* a resolved sample with a process born after the baseline and one in both
C1_Witness ==
  \E c \in CycleIds :
    /\ Resolved(c)
    /\ DOMAIN curSnapshot[c] \ DOMAIN processes[c] # {}
    /\ DOMAIN p2processes[c] # {}

\* 100 * delta / elapsed
Percentage(delta, elapsed) == NumDiv(NumMul(IntNum(100), delta), elapsed)

\* (a + b) - (c + d), in seconds
DeltaSeconds(a, b, c, d, hz) == NumDiv(NumSub(NumAdd(a, b), NumAdd(c, d)), hz)

\* the record rec holds the deltas user and system and their percentages
HoldsRates(rec, user, system, elapsed) ==
  /\ rec.raw.user = Num(user)
  /\ rec.raw.system = Num(system)
  /\ rec.raw.total = Num(NumAdd(user, system))
  /\ rec.userPercent = Num(Percentage(user, elapsed))
  /\ rec.systemPercent = Num(Percentage(system, elapsed))
  /\ rec.totalPercent = Num(Percentage(NumAdd(user, system), elapsed))

\* the record rec is the one the formulas give for base and cur
RatesOf(rec, base, cur, hz, elapsed) ==
  HoldsRates(rec,
             DeltaSeconds(cur["utime"].q, cur["cutime"].q,
                          base["utime"].q, base["cutime"].q, hz),
             DeltaSeconds(cur["stime"].q, cur["cstime"].q,
                          base["stime"].q, base["cstime"].q, hz),
             elapsed)

\* C2: for every identifier of both snapshots, user and system are the
\* differences of utime + cutime and of stime + cstime divided by the clock
\* ticks per second, total is their sum, and each percentage is 100 times
\* the delta divided by the elapsed seconds
C2_RateFormulas ==
  \A c \in CycleIds :
    Resolved(c) =>
      \A pid \in DOMAIN p2processes[c] :
        RatesOf(p2processes[c][pid].cpu, processes[c][pid].raw,
                curSnapshot[c][pid].raw, ToNumber(Str(hertz[c])), upDiff[c].q)

\* utime 10 -> 70, stime 5 -> 5, 5 seconds, 100 ticks per second: user is
\* 0.6 s, system 0 s and totalPercent 12
C2_Witness ==
  \E c \in CycleIds :
    /\ Resolved(c)
    /\ upDiff[c] = Num(IntNum(5))
    /\ ToNumber(Str(hertz[c])) = IntNum(100)
    /\ \E pid \in DOMAIN p2processes[c] :
         /\ processes[c][pid].raw["utime"] = Num(IntNum(10))
         /\ curSnapshot[c][pid].raw["utime"] = Num(IntNum(70))
         /\ processes[c][pid].raw["stime"] = Num(IntNum(5))
         /\ curSnapshot[c][pid].raw["stime"] = Num(IntNum(5))
         /\ p2processes[c][pid].cpu.raw.user = Num(<<3, 5>>)
         /\ p2processes[c][pid].cpu.raw.system = Num(IntNum(0))
         /\ p2processes[c][pid].cpu.totalPercent = Num(IntNum(12))

\* C3: a sample whose elapsed time is zero or negative is not resolved with
\* rate records
C3_DegenerateIntervalFails ==
  \A c \in CycleIds : Resolved(c) => NumLess(IntNum(0), upDiff[c].q)

\* C4: when the process of a listed identifier has exited before its files
\* are read, the read skips that identifier and resolves with all the others
C4_VanishedIsSkipped ==
  \A c \in CycleIds :
    ( /\ ReadDone(c)
      /\ Vanished(rdFiles[c]) # {}
      /\ Listed(rdFiles[c]) \ Vanished(rdFiles[c]) \subseteq OfKind(rdFiles[c], WellFormed) )
    => /\ readP[c] = "fulfilled"
       /\ DOMAIN Snapshot(c) = Listed(rdFiles[c]) \ Vanished(rdFiles[c])

\* C5: a status line of 51 or of 53 tokens does not abort the read: it is
\* warned about and its record is kept
C5_TokenCountIsNotFatal ==
  \A c \in CycleIds :
    ( /\ ReadDone(c)
      /\ OfKind(rdFiles[c], {"short", "long"}) # {}
      /\ Listed(rdFiles[c]) \subseteq OfKind(rdFiles[c], WellFormed \cup {"short", "long"}) )
    => /\ readP[c] = "fulfilled"
       /\ OfKind(rdFiles[c], {"short", "long"}) \subseteq warned[c]
       /\ DOMAIN Snapshot(c) = Listed(rdFiles[c])

\* C6: a status line without a bracketed span makes the read skip that
\* record only: it still resolves with every other identifier
C6_UnbracketedIsSkipped ==
  \A c \in CycleIds :
    ( /\ ReadDone(c)
      /\ OfKind(rdFiles[c], {"bare"}) # {}
      /\ Listed(rdFiles[c]) \subseteq OfKind(rdFiles[c], WellFormed \cup {"bare"}) )
    => /\ readP[c] = "fulfilled"
       /\ DOMAIN Snapshot(c) = OfKind(rdFiles[c], WellFormed)

\* the errors of an open that failed
OpenErrors == {"EIO", "EACCES"}

\* C7: when /proc or /proc/uptime cannot be opened, the promise the caller
\* holds is rejected
C7_OpenFailureRejects ==
  \A c \in CycleIds :
    (uncaught \in OpenErrors /\ pc[c] \in {"uptime", "readdir"})
    => psPromise[c] = "rejected"

\* C8: when a snapshot read of a sample has failed, the promise of the
\* sample is settled as failed
C8_FailedReadSettles ==
  \A c \in CycleIds : pc[c] = "stalled" => psPromise[c] = "rejected"

\* every identifier of the current snapshot has been removed for want of a
\* baseline, or has its cpu record
RateLoopComplete(c) ==
  \A pid \in DOMAIN curSnapshot[c] :
    IF pid \in DOMAIN processes[c]
    THEN pid \in DOMAIN p2processes[c] /\ "cpu" \in DOMAIN p2processes[c][pid]
    ELSE pid \notin DOMAIN p2processes[c]

\* every entry /proc listed has been processed
ReadComplete(c) ==
  /\ visited[c] = Len(Readdir(rdFiles[c]))
  /\ logged[c] = "none"

\* C9: no promise is resolved with a partial result: a snapshot read is
\* resolved only when every listed entry has been processed, and the sample
\* only when every identifier of the current snapshot has been removed or
\* given its cpu record
C9_NoPartialResult ==
  \A c \in CycleIds :
    /\ readP[c] = "fulfilled" => ReadComplete(c)
    /\ Resolved(c) => ReadComplete(c) /\ RateLoopComplete(c)

\* a resolved sample over a listing of three entries, one of them a process
\* that has no baseline
C9_Witness ==
  \E c \in CycleIds :
    /\ Resolved(c)
    /\ readP[c] = "fulfilled"
    /\ visited[c] = Len(OtherDirs) + 2
    /\ \E pid \in DOMAIN curSnapshot[c] : pid \notin DOMAIN processes[c]
    /\ \E pid \in DOMAIN curSnapshot[c] : pid \in DOMAIN p2processes[c]

\* the steps named ev in the history of cycle c, and the input of the k-th
Steps(c, ev) == SelectSeq(hist[c], LAMBDA e : e.ev = ev)
Has(c, ev) == Len(Steps(c, ev)) > 0
InputOf(c, ev, k) == Steps(c, ev)[k].arg

\* the map a read of the process table builds from files
AsRead(files, pageSize) ==
  EnumerateProcesses(Readdir(files), files, pageSize).processes

\* C12: a snapshot is not mutated once its read has resolved: when the
\* sample is resolved, the baseline map and the current map are still the
\* maps their reads built
C12_SnapshotsNotMutated ==
  \A c \in CycleIds :
    Resolved(c) =>
      /\ processes[c] = AsRead(InputOf(c, "read", 1), InputOf(c, "pagesize", 1))
      /\ p2processes[c] = AsRead(InputOf(c, "read", 2), InputOf(c, "pagesize", 2))

\* the seconds of uptime a reading of /proc/uptime begins with
UpOf(data) == ParseFloat(Split(data)[1])

\* C13: the elapsed time of a sample is the up time of the second uptime
\* reading minus that of the first, whatever the timer was set to and
\* however long it took to fire
C13_ElapsedFromUptime ==
  \A c \in CycleIds :
    Len(Steps(c, "uptime")) = 2 =>
      upDiff[c] = Num(NumSub(UpOf(InputOf(c, "uptime", 2)),
                             UpOf(InputOf(c, "uptime", 1))))

\* a resolved sample whose timer took twice its delay to fire, while the
\* two readings are half a second apart
C13_Witness ==
  \E c \in CycleIds :
    /\ Resolved(c)
    /\ Has(c, "timer_fired")
    /\ InputOf(c, "timer_fired", 1) = 2 * TimerDelay
    /\ upDiff[c] = Num(<<1, 2>>)

\* the names of the steps of a history
StepNames(h) == [i \in 1 .. Len(h) |-> h[i].ev]

\* a begins b
IsPrefix(a, b) == Len(a) <= Len(b) /\ a = SubSeq(b, 1, Len(a))

\* the steps of a sample in their order: the baseline read, the timer, the
\* current read, the rates
CycleOrder ==
  << "ps", "uptime", "clk_tck", "read_started", "pagesize", "read",
     "timer_started", "timer_fired",
     "uptime", "read_started", "pagesize", "read", "rates" >>

\* the reads of the baseline and of the current snapshot have resolved
BaselineAvailable(c) ==
  /\ Len(Steps(c, "read")) >= 1
  /\ processes[c] = AsRead(InputOf(c, "read", 1), InputOf(c, "pagesize", 1))
CurrentAvailable(c) ==
  /\ Len(Steps(c, "read")) = 2
  /\ curSnapshot[c] = AsRead(InputOf(c, "read", 2), InputOf(c, "pagesize", 2))

\* C14: the steps of a sample occur in order: the baseline read completes,
\* then the timer is started, the current read starts only after the timer
\* has fired, and the rates are computed only after both reads
C14_StepsInOrder ==
  \A c \in CycleIds :
    /\ IsPrefix(StepNames(hist[c]), CycleOrder)
    /\ Has(c, "timer_started") => BaselineAvailable(c)
    /\ Has(c, "rates") => BaselineAvailable(c) /\ CurrentAvailable(c)

\* a sample that has taken every step
C14_Witness ==
  \E c \in CycleIds : Resolved(c) /\ StepNames(hist[c]) = CycleOrder

\* the timer of cycle c has been started and its second read has not
AwaitingSecondRead(c) ==
  Has(c, "timer_started") /\ Len(Steps(c, "read_started")) < 2

\* the exceptions the callback of an uptime reading throws
UptimeErrors == {"EIO", "Invalid uptime file"}

HoldsMemory(mem, rss, page) ==
  /\ mem.pages = Num(IntNum(rss))
  /\ mem.bytes = Num(IntNum(rss * page))
  /\ mem.mb = IF rss = 0 THEN Num(IntNum(0))
              ELSE Num(Rat(rss * page, 1024 * 1024))

\* the memory of entry e is derived from its rss and the page size text
MemoryOf(e, pageText) ==
  /\ e.memory.pages = e.raw["rss"]
  /\ HoldsMemory(e.memory, e.raw["rss"].q[1], ParseFloat(pageText)[1])

\* the page size of the running read was obtained before its enumeration
PageSizeFirst(c) ==
  /\ Len(Steps(c, "pagesize")) = phase[c]
  /\ Len(Steps(c, "read")) = phase[c]
  /\ StepNames(SubSeq(hist[c], Len(hist[c]) - 1, Len(hist[c]))) = <<"pagesize", "read">>
  /\ InputOf(c, "pagesize", phase[c]) = pagesize[c]

\* C17: in every record of a snapshot memory.pages is rss, memory.bytes is
\* rss times the page size and memory.mb is bytes / (1024 * 1024), 0 when
\* rss is 0, the page size being the one getconf gave before the enumeration
\* of that read started
C17_MemoryFromPageSize ==
  \A c \in CycleIds :
    (ReadDone(c) /\ readP[c] = "fulfilled") =>
      /\ PageSizeFirst(c)
      /\ \A pid \in DOMAIN Snapshot(c) : MemoryOf(Snapshot(c)[pid], pagesize[c])

\* a resolved read with a record of 5 pages of 4096 bytes, and one of none
C17_Witness ==
  \E c \in CycleIds :
    /\ ReadDone(c) /\ readP[c] = "fulfilled"
    /\ \E pid \in DOMAIN Snapshot(c) :
         /\ Snapshot(c)[pid].memory.bytes = Num(IntNum(20480))
         /\ Snapshot(c)[pid].memory.mb = Num(<<5, 256>>)
    /\ \E pid \in DOMAIN Snapshot(c) :
         /\ Snapshot(c)[pid].raw["rss"] = Num(IntNum(0))
         /\ Snapshot(c)[pid].memory.mb = Num(IntNum(0))

\* the result of uptime() for the k-th reading of cycle c
OwnUptime(c, k) == UptimeResult(Split(InputOf(c, "uptime", k)))

\* the map the k-th read of cycle c built
OwnRead(c, k) == AsRead(InputOf(c, "read", k), InputOf(c, "pagesize", k))

\* what cycle c resolves with when it runs alone on the inputs it was given
AloneResult(c) ==
  RateLoop(OwnRead(c, 1), OwnRead(c, 2), Str(InputOf(c, "clk_tck", 1)),
           UpDiff(OwnUptime(c, 2), OwnUptime(c, 1)))

\* the closure variables of cycle c hold what its own steps were given
OwnVariables(c) ==
  /\ Has(c, "uptime") => prevUptime[c] = OwnUptime(c, 1)
  /\ Has(c, "clk_tck") => hertz[c] = InputOf(c, "clk_tck", 1)
  /\ Has(c, "timer_started") => processes[c] = OwnRead(c, 1)
  /\ Len(Steps(c, "uptime")) = 2 =>
       upDiff[c] = UpDiff(OwnUptime(c, 2), OwnUptime(c, 1))

\* C18: however two cycles interleave, the baseline, the current snapshot,
\* the elapsed time and the clock ticks of a cycle are those its own steps
\* were given, and its result is the one it produces alone on those inputs
C18_CyclesIndependent ==
  \A c \in CycleIds :
    /\ OwnVariables(c)
    /\ Resolved(c) => p2processes[c] = AloneResult(c)

\* two cycles have run side by side and resolved with different baselines
\* and different elapsed times
C18_Witness ==
  /\ Resolved(1) /\ Resolved(2)
  /\ processes[1] # processes[2]
  /\ upDiff[1] # upDiff[2]
  /\ p2processes[1] # p2processes[2]

\* the number is neither NaN nor below zero
NonNegative(q) == ~IsNaN(q) /\ ~NumLess(q, IntNum(0))

\* utime + cutime of a record, in ticks
UserTicks(raw) == NumAdd(raw["utime"].q, raw["cutime"].q)

\* C20: for an identifier of both snapshots whose user time has not
\* decreased, userPercent is at least 0
C20_UserPercentNonNegative ==
  \A c \in CycleIds :
    Resolved(c) =>
      \A pid \in DOMAIN p2processes[c] :
        ~NumLess(UserTicks(curSnapshot[c][pid].raw), UserTicks(processes[c][pid].raw))
        => NonNegative(p2processes[c][pid].cpu.userPercent.q)

\* the delta, in seconds, is more than the elapsed time
Exceeds(delta, elapsed) == NumLess(IntNum(0), elapsed) /\ NumLess(elapsed, delta)

\* the percentage is the exact value 100 * delta / elapsed, above 100
ExactAbove100(percent, delta, elapsed) ==
  /\ percent = Num(Percentage(delta.q, elapsed))
  /\ NumLess(IntNum(100), percent.q)

\* C21: the percentages are not clamped to [0,100]: whenever a delta of an
\* identifier of both snapshots is more than the elapsed time, its
\* percentage is the exact value, which is above 100
C21_PercentagesNotClamped ==
  \A c \in CycleIds :
    Resolved(c) =>
      \A pid \in DOMAIN p2processes[c] :
        LET Unclamped(cpu) ==
              /\ Exceeds(cpu.raw.total.q, upDiff[c].q)
                   => ExactAbove100(cpu.totalPercent, cpu.raw.total, upDiff[c].q)
              /\ Exceeds(cpu.raw.user.q, upDiff[c].q)
                   => ExactAbove100(cpu.userPercent, cpu.raw.user, upDiff[c].q)
              /\ Exceeds(cpu.raw.system.q, upDiff[c].q)
                   => ExactAbove100(cpu.systemPercent, cpu.raw.system, upDiff[c].q)
        IN  Unclamped(p2processes[c][pid].cpu)

\* utime 10 -> 70 at 100 ticks per second over half a second: 0.6 s of
\* user time, userPercent and totalPercent 120
C21_Witness ==
  \E c \in CycleIds :
    /\ Resolved(c)
    /\ upDiff[c] = Num(<<1, 2>>)
    /\ \E pid \in DOMAIN p2processes[c] :
         /\ p2processes[c][pid].cpu.raw.user = Num(<<3, 5>>)
         /\ p2processes[c][pid].cpu.userPercent = Num(IntNum(120))
         /\ p2processes[c][pid].cpu.totalPercent = Num(IntNum(120))

\* the place in the history of cycle c of the k-th step named ev
Pos(c, ev, k) ==
  CHOOSE i \in 1 .. Len(hist[c]) :
    /\ hist[c][i].ev = ev
    /\ Cardinality({j \in 1 .. i : hist[c][j].ev = ev}) = k

\* the number of steps named ev cycle c has taken
Count(c, ev) == Len(Steps(c, ev))

\* the k-th step named a has been taken, and before the k-th step named b
Before(c, a, b, k) == Count(c, a) >= k /\ Pos(c, a, k) < Pos(c, b, k)

\* C26: the baseline uptime is read before the clock ticks are looked up and
\* before the baseline read starts; the current uptime is read after the
\* timer has fired and before the current read starts; so each uptime
\* reading precedes the snapshot that goes with it
C26_UptimeBeforeSnapshot ==
  \A c \in CycleIds :
    /\ Has(c, "clk_tck") => Before(c, "uptime", "clk_tck", 1)
    /\ \A k \in 1 .. Count(c, "read_started") :
         Before(c, "uptime", "read_started", k)
    /\ Count(c, "uptime") >= 2 => Pos(c, "timer_fired", 1) < Pos(c, "uptime", 2)
    /\ \A k \in 1 .. Count(c, "read") : Before(c, "uptime", "read", k)

\* a resolved sample: the uptime readings are its steps 2 and 9, the clock
\* ticks step 3, the timer fires at step 8, the reads start at steps 4 and
\* 10 and end at steps 6 and 12
C26_Witness ==
  \E c \in CycleIds :
    /\ Resolved(c)
    /\ Pos(c, "uptime", 1) = 2 /\ Pos(c, "clk_tck", 1) = 3
    /\ Pos(c, "read_started", 1) = 4 /\ Pos(c, "read", 1) = 6
    /\ Pos(c, "timer_fired", 1) = 8 /\ Pos(c, "uptime", 2) = 9
    /\ Pos(c, "read_started", 2) = 10 /\ Pos(c, "read", 2) = 12

\* an input of cycle c was not as the claim of termination supposes: a
\* callback was given an error or an uptime file that has not two tokens
\* (it threw), or a read of the process table found a process that had
\* exited or a status line that is not well-formed
InputFailed(c) ==
  \/ uncaught # "none"
  \/ \E k \in 1 .. Count(c, "read") :
       \E n \in PidNames : InputOf(c, "read", k)[n] \notin WellFormed \cup {"absent"}

\* C27: when every read, listing and helper succeeds and every status line
\* is well-formed, a call of ps() eventually resolves its promise, and it
\* resolves it once: only the rate step resolves, and it is taken at most
\* once
C27_ResolvesExactlyOnce ==
  /\ [](\A c \in CycleIds :
          /\ Count(c, "rates") <= 1
          /\ Resolved(c) <=> Count(c, "rates") = 1)
  /\ \A c \in CycleIds : Has(c, "ps") ~> (Resolved(c) \/ InputFailed(c))

\* a sample of well-formed inputs that has resolved, by its one rate step
C27_Witness ==
  \E c \in CycleIds :
    /\ Resolved(c)
    /\ ~InputFailed(c)
    /\ Count(c, "read") = 2
    /\ Count(c, "rates") = 1
    /\ pc[c] = "done"

(***************************************************************************)
(* Properties of the enumeration (SpecRead).                               *)
(***************************************************************************)
\* the name is a decimal number
NumericName(dir) == dir # <<>> /\ \A i \in 1 .. Len(dir) : dir[i] \in Digits

\* C16: an identifier comes only from an entry whose whole name is a
\* number: every record is stored under the very name of the entry it was
\* read for, and an entry that is no number neither stores a record nor
\* ends the read
C16_OnlyNumericEntries ==
  pOut.parsed =>
    /\ \A k \in 1 .. Len(pOut.r.stores) :
         pOut.r.stores[k][1] = pOut.r.stores[k][2]
    /\ pOut.r.thrown => NumericName(pIn.dirs[pOut.r.visited + 1])

(***************************************************************************)
(* Properties of the record parser (SpecParse).                            *)
(***************************************************************************)
\* the name has white space inside it and none at its ends
EmbeddedWhiteSpace(name) ==
  /\ name[1] \notin WhiteSpace
  /\ name[Len(name)] \notin WhiteSpace
  /\ \E i \in 1 .. Len(name) : name[i] \in WhiteSpace

\* every field of raw is the token of tokens at its position
FieldsAtPositions(raw, tokens) ==
  \A i \in 1 .. Len(StatFields) :
    IF StatFields[i] = "comm" THEN raw[StatFields[i]] = Str(tokens[i])
    ELSE raw[StatFields[i]] \in {Str(tokens[i]), Num(ParseFloat(tokens[i]))}

\* the parser split the line into 52 tokens and built the entry of tokens
ParsedAs(r, name, tokens) ==
  /\ ~r.thrown
  /\ ~r.warned
  /\ FieldsAtPositions(r.entry.raw, tokens)
  /\ r.entry.executable = Str(name)

\* C10: a well-formed status line whose name has embedded white space and no
\* parentheses is split into 52 tokens, every field is the token at its
\* position, raw.comm is the bracketed name as it was written, and executable
\* is the name without the parentheses
C10_NameWithWhiteSpace ==
  (pOut.parsed /\ EmbeddedWhiteSpace(pIn.name))
  => ParsedAs(pOut.r, pIn.name,
              LineTokens(pIn.pid, pIn.name, pIn.code, pIn.ticks))


\* C11: state.value is a defined label for every state token: a token that
\* is none of the recognised codes is given an explicit label
C11_StateAlwaysLabelled ==
  (pOut.parsed /\ ~pOut.r.thrown) => pOut.r.entry.state.value # Undefined


\* the token is a numeric literal: an optional sign, digits with at most one
\* decimal point, at least one digit
WhollyNumeric(tok) == LiteralEnd(tok) = Len(tok) /\ ParseFloat(tok) # NaN

\* the field v is the number of a numeric token, the text of any other
FieldCoerced(v, tok) ==
  IF WhollyNumeric(tok) THEN v = Num(ParseFloat(tok)) ELSE v = Str(tok)

\* C19: a field of a parsed record is a number exactly when its token is
\* numeric and is the token itself otherwise: a token that is not wholly
\* numeric never becomes a number or NaN
C19_NumericExactly ==
  (pOut.parsed /\ ~pOut.r.thrown /\ ~pOut.r.warned) =>
    \A i \in 1 .. Len(StatFields) :
      FieldCoerced(pOut.r.entry.raw[StatFields[i]],
                   LineTokens(pIn.pid, pIn.name, pIn.code, pIn.ticks)[i])

(***************************************************************************)
(* Properties of uptime() (SpecUptime).                                    *)
(***************************************************************************)
\* the positions of the spaces of a text
SpacesOf(data) == {i \in 1 .. Len(data) : data[i] = SP}

\* the text before and the text after the only space of a text
FirstToken(data) == SubSeq(data, 1, (CHOOSE i \in SpacesOf(data) : TRUE) - 1)
SecondToken(data) ==
  SubSeq(data, (CHOOSE i \in SpacesOf(data) : TRUE) + 1, Len(data))

\* the file was read without an error and the callback has run
UptimeRead == pOut.parsed /\ pIn.err = "none"

\* C22: a file of exactly two space-separated tokens resolves with up the
\* first token as a number, idleTotal the second token as a number and idle
\* idleTotal divided by the number of cores; any other file gives the error
\* 'Invalid uptime file' and no result
C22_UptimeOfTwoTokens ==
  UptimeRead =>
    IF Cardinality(SpacesOf(pIn.data)) = 1
    THEN /\ ~pOut.r.thrown
         /\ pOut.r.result.up = Num(ParseFloat(FirstToken(pIn.data)))
         /\ pOut.r.result.idleTotal = Num(ParseFloat(SecondToken(pIn.data)))
         /\ pOut.r.result.idle
              = Num(NumDiv(pOut.r.result.idleTotal.q, IntNum(NumCpus)))
    ELSE /\ pOut.r.thrown
         /\ pOut.r.error = "Invalid uptime file"
         /\ "result" \notin DOMAIN pOut.r

\* "100.50 7\n" on two cores: up 100.5, idleTotal 7 and idle 3.5
C22_Witness ==
  /\ UptimeRead
  /\ pIn.data = <<"1", "0", "0", ".", "5", "0", " ", "7", "\n">>
  /\ pOut.r.result = [up |-> Num(<<201, 2>>), idleTotal |-> Num(IntNum(7)),
                      idle |-> Num(<<7, 2>>)]

(***************************************************************************)
(* Properties of df() (SpecDf).                                            *)
(***************************************************************************)
\* the number a size stands for, in megabytes: the number before its last
\* character times the factor of that character, 0 when it is no T, G or M
Megabytes(size) ==
  LET Times(factor) ==
        NumMul(ParseFloat(SubSeq(size, 1, Len(size) - 1)), IntNum(factor))
  IN  CASE size[Len(size)] = "T" -> Times(1024 * 1024)
        [] size[Len(size)] = "G" -> Times(1024)
        [] size[Len(size)] = "M" -> Times(1)
        [] OTHER -> IntNum(0)

InMegabytes(field, size) == field = [size |-> Num(Megabytes(size)), unit |-> "M"]

\* C23: every line of six columns gets an entry (the k-th line after the
\* header at offset k - 1) whose capacity, used and
\* available are in megabytes (T times 1024 * 1024, G times 1024, M kept,
\* anything else 0, unit 'M'); the header and every line that has not six
\* columns get none
C23_DfInMegabytes ==
  pOut.parsed =>
    /\ \A k \in 1 .. Len(pIn.lines) :
         IF Len(pIn.lines[k]) = 6
         THEN /\ k - 1 \in DOMAIN pOut.r
              /\ InMegabytes(pOut.r[k - 1].capacity, pIn.lines[k][2])
              /\ InMegabytes(pOut.r[k - 1].used, pIn.lines[k][3])
              /\ InMegabytes(pOut.r[k - 1].available, pIn.lines[k][4])
         ELSE k - 1 \notin DOMAIN pOut.r
    /\ DOMAIN pOut.r \subseteq 0 .. Len(pIn.lines) - 1

\* a line "udev 5.8T 512k 5.8T 1% /" after one whose mount point holds a
\* space: one entry, capacity 6081740.8 M and used 0 M
C23_Witness ==
  /\ pOut.parsed
  /\ Len(pIn.lines) = 2
  /\ Len(pIn.lines[1]) = 7
  /\ pIn.lines[2][2] = <<"5", ".", "8", "T">>
  /\ pIn.lines[2][3] = <<"5", "1", "2", "k">>
  /\ DOMAIN pOut.r = {1}
  /\ pOut.r[1].capacity = [size |-> Num(<<30408704, 5>>), unit |-> "M"]
  /\ pOut.r[1].used = [size |-> Num(IntNum(0)), unit |-> "M"]

(***************************************************************************)
(* Properties of memory() (SpecMemory).                                    *)
(***************************************************************************)
\* memory() has resolved
MemoryReported == pOut.parsed /\ ~pOut.r.thrown

\* the value the file gives for a key
ValueOf(key) ==
  pIn.lines[CHOOSE i \in 1 .. Len(pIn.lines) : pIn.lines[i].key = key].value

\* C24: ram.total is the MemAvailable entry, ram.used.size is MemAvailable -
\* MemFree - Cached, swap.used.size is SwapTotal - SwapFree - SwapCached, and
\* raw holds an entry {size, unit} for every line "key: value [unit]" and
\* for no other line
C24_MemoryFromMemAvailable ==
  MemoryReported =>
    /\ pOut.r.ram.total = pOut.r.raw[MemKeys.MemAvailable]
    /\ pOut.r.ram.used.size
         = Num(IntNum(ValueOf(MemKeys.MemAvailable) - ValueOf(MemKeys.MemFree)
                        - ValueOf(MemKeys.Cached)))
    /\ pOut.r.swap.used.size
         = Num(IntNum(ValueOf(MemKeys.SwapTotal) - ValueOf(MemKeys.SwapFree)
                        - ValueOf(MemKeys.SwapCached)))
    /\ DOMAIN pOut.r.raw = {pIn.lines[i].key : i \in 1 .. Len(pIn.lines)}
    /\ \A i \in 1 .. Len(pIn.lines) :
         pOut.r.raw[pIn.lines[i].key]
           = [size |-> Num(IntNum(pIn.lines[i].value)),
              unit |-> IF pIn.lines[i].unit = <<>> THEN Undefined
                       ELSE Str(pIn.lines[i].unit)]

\* MemAvailable 900, MemFree 100, Cached 200, SwapTotal 500, SwapFree 300,
\* SwapCached 10 and a line without a colon: ram.used is 600 kB and
\* swap.used 190 kB
C24_Witness ==
  /\ MemoryReported
  /\ pIn.other = <<<<"x", " ", "1">>>>
  /\ pOut.r.ram.total = [size |-> Num(IntNum(900)), unit |-> Str(KiloBytes)]
  /\ pOut.r.ram.used = [size |-> Num(IntNum(600)), unit |-> Str(KiloBytes)]
  /\ pOut.r.swap.used = [size |-> Num(IntNum(190)), unit |-> Str(KiloBytes)]

(***************************************************************************)
(* Properties of cpuUsage() (SpecCpuUsage).                                *)
(***************************************************************************)
\* the sum of the times of a core
TimesSum(cpu) == cpu.user + cpu.nice + cpu.sys + cpu.idle + cpu.irq

\* v is the integer nearest to n / d, a half rounded up
IsRounded(v, n, d) ==
  /\ v[2] = 1
  /\ (2 * v[1] - 1) * d <= 2 * n
  /\ 2 * n < (2 * v[1] + 1) * d

\* the value of a key of a core is its share of the core's times, rounded
ShareRounded(core, key) ==
  IsRounded(core[key], 100 * core.raw[key], TimesSum(core.raw))

\* the sum of the rounded shares of the keys other than idle
NonIdleShares(core) ==
  NumAdd(NumAdd(NumAdd(core.user, core.nice), core.sys), core.irq)

\* C28: for every core whose times are not all zero, the value of each key
\* is round(100 * time / sum of the times), total.percent is the sum of the
\* rounded values of the keys other than idle, and total.percent plus the
\* rounded idle value is 100, so that total.percent lies in 0..100
C28_CoreSharesAddTo100 ==
  pOut.parsed =>
    \A i \in 1 .. Len(pOut.r.cores) :
      TimesSum(pIn.cpus[i]) # 0 =>
        LET Holds(core) ==
              /\ \A key \in {"user", "nice", "sys", "idle", "irq"} :
                   ShareRounded(core, key)
              /\ core.total.percent = NonIdleShares(core)
              /\ NumAdd(core.total.percent, core.idle) = IntNum(100)
              /\ ~NumLess(core.total.percent, IntNum(0))
              /\ ~NumLess(IntNum(100), core.total.percent)
        IN  Holds(pOut.r.cores[i])

\* the sum of a sequence of numbers
RECURSIVE SumNum(_)
SumNum(s) == IF s = <<>> THEN IntNum(0) ELSE NumAdd(s[1], SumNum(Tail(s)))

\* C29: the overall raw idle and usage times are the sums of those of the
\* cores, the raw idle and usage times of a core add up to the sum of its
\* times, and the overall total.percent is the sum of the total.percent of
\* the cores, not their mean
C29_TotalsAreSums ==
  pOut.parsed =>
    LET Sums(total, cores) ==
          /\ total.raw.idle = SumNum([i \in 1 .. Len(cores) |-> cores[i].total.raw.idle])
          /\ total.raw.usage = SumNum([i \in 1 .. Len(cores) |-> cores[i].total.raw.usage])
          /\ total.percent = SumNum([i \in 1 .. Len(cores) |-> cores[i].total.percent])
          /\ \A i \in 1 .. Len(cores) :
               NumAdd(cores[i].total.raw.idle, cores[i].total.raw.usage)
                 = IntNum(TimesSum(pIn.cpus[i]))
    IN  /\ Len(pOut.r.cores) = Len(pIn.cpus)
        /\ Sums(pOut.r.total, pOut.r.cores)

\* a core with the times 1, 1, 1, 5, 0 (39 percent) and one with the times
\* 0, 0, 1, 1, 0 (50 percent): overall idle 6, usage 4 and 89 percent
C29_Witness ==
  /\ pOut.parsed
  /\ pIn.cpus[1] = [user |-> 1, nice |-> 1, sys |-> 1, idle |-> 5, irq |-> 0]
  /\ pIn.cpus[2] = [user |-> 0, nice |-> 0, sys |-> 1, idle |-> 1, irq |-> 0]
  /\ pOut.r.cores[1].total.percent = IntNum(39)
  /\ pOut.r.cores[2].total.percent = IntNum(50)
  /\ pOut.r.total = [raw |-> [idle |-> IntNum(6), usage |-> IntNum(4)],
                     percent |-> IntNum(89)]

(***************************************************************************)
(* Properties of the state classification (SpecParse).                     *)
(***************************************************************************)
\* the label the classification gives to a state code
LabelOf ==
  [S |-> "Sleeping", R |-> "Running", D |-> "Waiting", Z |-> "Zombie",
   T |-> "Stopped", t |-> "Tracing stop", X |-> "Dead", x |-> "Dead",
   K |-> "Wakekill", P |-> "Parked", W |-> "Paging"]

\* the token at the state position of the array the parser splits the line
\* of pIn into
StateToken ==
  LET Token(stat, processName) ==
        StatParts(stat, processName.text)[statMap["state"] + 1]
      Line(stat) == Token(stat, MatchProcessName(stat))
  IN  Line(Trim(StatLine(pIn.pid, pIn.name, pIn.code, pIn.ticks,
                         ExpectedEntries)))

\* C30: a state token R, S, D, Z, T, t, X, x, K, P or W is labelled Running,
\* Sleeping, Waiting, Zombie, Stopped, Tracing stop, Dead, Dead, Wakekill,
\* Parked or Paging, no token is labelled Waking, and state.code is always
\* the token at the state position
C30_StateClassification ==
  (pOut.parsed /\ ~pOut.r.thrown) =>
    LET Classified(state, token) ==
          /\ \A code \in DOMAIN LabelOf :
               token = <<code>> => state.value = Str(<<LabelOf[code]>>)
          /\ state.value # Str(<<"Waking">>)
          /\ state.code = Str(token)
    IN  Classified(pOut.r.entry.state, StateToken)

=============================================================================
